---- MODULE Spec2Model ----
(***************************************************************************)
(* Media backend bridge of sbtlTV (packages/electron/src/main.ts): the     *)
(* Electron main process supervising the GStreamer helper (text-line       *)
(* protocol over stdin/stdout, frames over a unix socket) on Linux and the *)
(* mpv player (JSON over an IPC socket) elsewhere.                         *)
(*                                                                         *)
(* Every action is one callback of the single-threaded event loop, run to  *)
(* completion.  null is written "null".                                    *)
(***************************************************************************)
EXTENDS Integers, Sequences, FiniteSets, TLC

\* ------------------------------------------------------------------ bounds
\* commands the renderer issues to the helper in a run that exercises the
\* command channel
MaxGstCommands == 2
\* commands the renderer issues to mpv in one run
MaxMpvCommands == 2
\* samples the appsink hands to on_new_sample in one run
MaxProduced == 5
\* streams the user starts in one run of the renderer
MaxLoads == 1
\* status updates the backend reports in one run
MaxStatus == 3
\* milliseconds the clock advances in one run
MaxClock == 210
\* packets in one frame stream
MaxFrames == 2
\* non-empty stderr lines the helper writes in a run that exercises supervision
MaxStderrLines == 8

\* ------------------------------------------------------- program constants
GST_STDERR_TAIL_MAX == 6
FRAME_MAGIC == 1396855884
FRAME_HEADER_SIZE == 40
FRAME_FORMAT_RGBA == 1
FRAME_QUEUE_MAX == 3

Platforms == {"linux", "win32", "darwin"}

\* ---------------------------------------------------------------- helpers
Min(a, b) == IF a < b THEN a ELSE b
Max(a, b) == IF a > b THEN a ELSE b

\* Array.prototype.slice(-n): the last n elements
\* variant: slice(0, n), the first n elements
SliceFirst(s, n) == SubSeq(s, 1, Min(n, Len(s)))
SliceLast(s, n) == SubSeq(s, Max(1, Len(s) - n + 1), Len(s))

RECURSIVE Flatten(_)
Flatten(ss) == IF ss = <<>> THEN <<>> ELSE Head(ss) \o Flatten(Tail(ss))

\* String.prototype.trim on a line of character codes, 0 being white space
RECURSIVE TrimLeft(_)
TrimLeft(l) == IF l # <<>> /\ Head(l) = 0 THEN TrimLeft(Tail(l)) ELSE l
RECURSIVE TrimRight(_)
TrimRight(l) ==
    IF l # <<>> /\ l[Len(l)] = 0 THEN TrimRight(SubSeq(l, 1, Len(l) - 1)) ELSE l
Trim(l) == TrimRight(TrimLeft(l))

VARIABLES
    platform,               \* process.platform
    scenario,               \* what the environment exercises in this run
    appPc,                  \* position of the app lifecycle (whenReady chain)
    mainWindow,             \* "null" or "window"
    justStopped,            \* the handler that ran last was a stop handler
    sent,                   \* webContents.send calls of the last handler
    ret,                    \* return value of the last command call
    \* GStreamer helper supervisor
    gstProcess,             \* "null" or "proc"
    gstStdin,               \* process.stdin is a stream
    gstAlive,               \* the spawned child has not delivered 'exit' yet
    gstBuffer,              \* partial stdout line (sequence of words)
    gstReady,
    gstRequestId,
    gstPendingRequests,     \* keys of the pending map
    gstTimers,              \* armed 5 s timers, oldest first (equal delays
                            \* expire in the order they were set)
    gstOutcome,             \* id -> settle calls made on the request's promise
    gstWritten,             \* payloads handed to stdin.write
    gstStderrTail,
    gstStderrCount,         \* non-empty stderr lines written by the helper
    gstLastRect,
    gstViewport,
    gstFrameServer,         \* "null" or "server"
    gstFrameSocketPath,     \* "null" or "path"
    frameSocketFile,        \* the socket file exists on disk
    gstFrameBuffer,
    gstLastVideoInfoKey,    \* <<>> for the empty key
    gstFrameSendScheduled,
    gstLatestFrame,         \* <<>> for null, or <<frame>>
    frameImmediates,        \* queued setImmediate callbacks of scheduleFrameSend
    frameConn,              \* the helper's connection to the frame server is open
    frameInput,             \* what the helper writes to the frame socket in this run
    frameWire,              \* the bytes of it not delivered yet
    chunkSizes,             \* sizes of the chunks the socket delivers
    framesParsed,           \* the calls of handleParsedFrame so far
    decodePc,               \* "loop" inside the decode loop of parseFrameBuffer
    \* mpv supervisor
    mpvProcess,             \* "null" or "proc"
    mpvAlive,               \* the spawned mpv has not delivered 'exit' yet
    mpvSocket,              \* "null" or "socket"
    mpvConn,                \* "none", "connecting", "connected", "failed", "closed"
    mpvSocketFile,          \* SOCKET_PATH exists
    mpvInitPc,              \* position of initMpv
    mpvLineBuffer,          \* buffer of connectToMpvSocket
    mpvLoadPc,              \* 0, or the request the mpv-load handler awaits
    requestId,
    pendingRequests,
    mpvTimers,
    mpvOutcome,
    mpvWritten,
    \* the helper process: frame queue between the appsink callback and the
    \* frame-writer thread, and the playback intent of its main loop
    frame_queue,            \* ids of the queued packets, oldest first
    frame_queue_size,
    frame_id_counter,
    producerPc,             \* position of on_new_sample
    writerPc,               \* position of frame_writer_thread_fn
    writerPacket,           \* the packet the writer holds, 0 for none
    pipeline,               \* the state last requested of playbin
    want_playing,
    buffering,
    is_playing,
    userIntent,             \* want_playing as the last user command left it
    endedSince,             \* an error or end of stream came after that command
    helperCall,             \* gst_element_set_state calls of the last handler
    \* playback state kept by the main process and its throttled pushes
    mpvState,               \* position and duration in thousandths of a second
    lastStatusUpdate,
    lastGstStatusUpdate,
    now,                    \* Date.now(), in ms since the process started
    statusLog,              \* the status updates handled so far
    pushLog,                \* the mpv-status pushes made so far
    \* window geometry
    rectOut,                \* the last rectangle computed by sendGstRect
    cmdOut,                 \* the last command line the helper handled, with its effect
    helperProc,             \* the helper's main, writer flag, frame socket and bytes sent
    preload,                \* the preload script: lastReady and the listener sets
    \* the renderer's player
    uiReady,                \* mpvReady
    uiCalls,                \* the calls of handleLoadStream and handlePlayVod so far
    currentChannel,         \* direct_url of the current channel, <<>> for none
    uiPlaying,
    uiError,
    uiLoads                 \* the calls of mpv.load so far, in order

helperVars == <<frame_queue, frame_queue_size, frame_id_counter, producerPc, writerPc,
                writerPacket, pipeline, want_playing, buffering, is_playing, userIntent,
                endedSince, helperCall>>
uiVars == <<uiReady, uiCalls, currentChannel, uiPlaying, uiError, uiLoads>>
rectVars == <<rectOut, cmdOut, helperProc, preload>>
statusVars == <<mpvState, lastStatusUpdate, lastGstStatusUpdate, now, statusLog, pushLog>>
envVars == <<platform, scenario, helperVars, uiVars, rectVars>>
appVars == <<platform, scenario, appPc, mainWindow, justStopped, sent, ret>>
gstCmdVars == <<gstRequestId, gstPendingRequests, gstTimers, gstOutcome, gstWritten>>
gstProcVars == <<gstProcess, gstStdin, gstAlive, gstBuffer, gstReady,
                 gstStderrTail, gstStderrCount, gstLastRect, gstViewport>>
frameEnvVars == <<frameImmediates, frameConn, frameInput, frameWire, chunkSizes, framesParsed,
                  decodePc>>
gstFrameVars == <<gstFrameServer, gstFrameSocketPath, frameSocketFile, gstFrameBuffer,
                  gstLastVideoInfoKey, gstFrameSendScheduled, gstLatestFrame, frameEnvVars>>
gstVars == <<gstCmdVars, gstProcVars, gstFrameVars>>
mpvProcVars == <<mpvProcess, mpvAlive, mpvSocket, mpvConn, mpvSocketFile, mpvInitPc,
                 mpvLineBuffer, mpvLoadPc>>
mpvCmdVars == <<requestId, pendingRequests, mpvTimers, mpvOutcome, mpvWritten>>
mpvVars == <<mpvProcVars, mpvCmdVars>>
vars == <<appVars, gstVars, mpvVars, helperVars, uiVars, rectVars, statusVars>>

GstIds == 1..MaxGstCommands
\* the properties observed at connect time
ObservedProperties == <<"pause", "volume", "mute", "time-pos", "duration">>
MpvIds == 1..(Len(ObservedProperties) + MaxMpvCommands)
\* ids of the commands the renderer issues
MpvUserIds == {id \in MpvIds : id > Len(ObservedProperties)}
\* the environment of one run: the renderer issues many commands and the
\* helper is quiet on stderr, or the other way round
Scenarios == {"commands", "supervision"}
CommandBudget == IF scenario = "commands" THEN MaxGstCommands ELSE 1
StderrBudget == IF scenario = "supervision" THEN MaxStderrLines ELSE 1
gstUseAppsink == platform = "linux"

\* gstViewport and gstLastRect before anything is stored in them (null)
NoViewport == [null |-> TRUE]
NullRect == [null |-> TRUE]

\* sendToRenderer: nothing is sent without a window
sendToRenderer(win, channel, data) ==
    IF win # "null" THEN << [channel |-> channel, data |-> data] >> ELSE <<>>

\* ------------------------------------------------------------ wire codec
\* Buffers are sequences of bytes; offsets are those of the source (0-based).
magicBytes == <<76, 84, 66, 83>>

\* variant: the big-endian read
readUInt16BE(buf, off) == 256 * buf[off + 1] + buf[off + 2]
readUInt16LE(buf, off) == buf[off + 1] + 256 * buf[off + 2]
readUInt32LE(buf, off) ==
    buf[off + 1] + 256 * buf[off + 2] + 65536 * buf[off + 3] + 16777216 * buf[off + 4]
\* variant: the byte before the offset is kept
subarrayInclusive(buf, start) == SubSeq(buf, start, Len(buf))
subarray(buf, start) == SubSeq(buf, start + 1, Len(buf))

\* Buffer.indexOf(magicBytes, from)
indexOf(buf, from) ==
    LET hits == {i \in from..(Len(buf) - 4) : SubSeq(buf, i + 1, i + 4) = magicBytes}
    IN IF hits = {} THEN -1 ELSE CHOOSE i \in hits : \A j \in hits : i <= j

\* 64-bit values are bit sequences, least significant bit first
BitsOfByte(b) == [i \in 1..8 |-> (b \div (2 ^ (i - 1))) % 2]
readBigUInt64LE(buf, off) == Flatten([k \in 1..8 |-> BitsOfByte(buf[off + k])])
TopBit(bits) ==
    LET ones == {i \in 1..Len(bits) : bits[i] = 1}
    IN IF ones = {} THEN 0 ELSE CHOOSE i \in ones : \A j \in ones : j <= i
RECURSIVE Increment(_)
Increment(bits) ==
    IF bits = <<>> THEN <<1>>
    ELSE IF Head(bits) = 0 THEN <<1>> \o Tail(bits)
    ELSE <<0>> \o Increment(Tail(bits))
Zeros(n) == [i \in 1..n |-> 0]
PadTo(bits, n) == bits \o Zeros(n - Len(bits))
\* Number(bigint): the nearest double, ties to even; a double keeps 53
\* significant bits.  The result is given as a 65-bit integer.
Number(bits) ==
    LET top == TopBit(bits) IN
    IF top <= 53 THEN PadTo(bits, 65)
    ELSE LET drop == top - 53
             kept == SubSeq(bits, drop + 1, top)
             low == SubSeq(bits, 1, drop)
             up == low[drop] = 1
                   /\ ((\E i \in 1..(drop - 1) : low[i] = 1) \/ kept[1] = 1)
         IN PadTo(Zeros(drop) \o (IF up THEN Increment(kept) ELSE kept), 65)

\* variant: the header alone is taken for the frame
totalSizeHeaderOnly(headerSize, payloadSize) == headerSize
\* the size of a frame on the wire
totalSize(headerSize, payloadSize) == headerSize + payloadSize

\* one iteration of the decode loop of parseFrameBuffer on a buffer of at
\* least FRAME_HEADER_SIZE bytes: the buffer it leaves, the frame it hands to
\* handleParsedFrame (if any), and whether it returns from the function
decodeIteration(buf) ==
    IF SubSeq(buf, 1, 4) # magicBytes
    THEN LET next == indexOf(buf, 1) IN
         IF next = -1 THEN [buffer |-> <<>>, frames |-> <<>>, returns |-> TRUE]
         ELSE [buffer |-> subarray(buf, next), frames |-> <<>>, returns |-> FALSE]
    ELSE LET version == readUInt16LE(buf, 4)
             headerSize == readUInt16LE(buf, 6)
         IN IF version # 1 \/ headerSize < FRAME_HEADER_SIZE
            THEN [buffer |-> subarray(buf, 4), frames |-> <<>>, returns |-> FALSE]
            ELSE LET width == readUInt32LE(buf, 8)
                     height == readUInt32LE(buf, 12)
                     stride == readUInt32LE(buf, 16)
                     format == readUInt32LE(buf, 20)
                     pts == Number(readBigUInt64LE(buf, 24))
                     payloadSize == readUInt32LE(buf, 32)
                     frameId == readUInt32LE(buf, 36)
                     total == totalSize(headerSize, payloadSize)
                 IN IF Len(buf) < total
                    THEN [buffer |-> buf, frames |-> <<>>, returns |-> TRUE]
                    ELSE [buffer |-> subarray(buf, total),
                          frames |-> IF format = FRAME_FORMAT_RGBA
                                     THEN << [info |-> [width |-> width, height |-> height,
                                                        stride |-> stride, format |-> "RGBA",
                                                        pts |-> pts, frameId |-> frameId],
                                              data |-> SubSeq(buf, headerSize + 1, total)] >>
                                     ELSE <<>>,
                          returns |-> FALSE]

\* parseFrameBuffer: the decode loop on buffer buf, frames being the calls of
\* handleParsedFrame made so far
RECURSIVE parseFrameBuffer(_, _)
parseFrameBuffer(buf, frames) ==
    IF Len(buf) < FRAME_HEADER_SIZE THEN [buffer |-> buf, frames |-> frames]
    ELSE LET it == decodeIteration(buf) IN
         IF it.returns THEN [buffer |-> it.buffer, frames |-> frames \o it.frames]
         ELSE parseFrameBuffer(it.buffer, frames \o it.frames)

\* variant: the key tells frames apart by their pts as well
infoKeyWithPts(info) == <<info.width, info.height, info.stride, info.format, info.pts>>
\* infoKey of handleParsedFrame: `${width}x${height}:${stride}:${format}`
infoKey(info) == <<info.width, info.height, info.stride, info.format>>

\* variant: a frame already held is kept, the new one dropped
RECURSIVE handleParsedFramesKeepFirst(_, _)
handleParsedFramesKeepFirst(frames, fs) ==
    IF frames = <<>> THEN fs
    ELSE LET f == Head(frames)
             key == infoKey(f.info)
             changed == key # fs.lastVideoInfoKey
         IN handleParsedFramesKeepFirst(Tail(frames),
               [lastVideoInfoKey |-> key,
                sent |-> fs.sent \o (IF changed
                                     THEN sendToRenderer(mainWindow, "player-video-info", f.info)
                                     ELSE <<>>),
                latestFrame |-> IF fs.latestFrame # <<>> THEN fs.latestFrame ELSE <<f>>,
                sendScheduled |-> TRUE,
                immediates |-> fs.immediates + (IF fs.sendScheduled THEN 0 ELSE 1)])

\* handleParsedFrame with scheduleFrameSend, on the frames of one decode loop;
\* fs carries the fields they change
RECURSIVE handleParsedFrames(_, _)
handleParsedFrames(frames, fs) ==
    IF frames = <<>> THEN fs
    ELSE LET f == Head(frames)
             key == infoKey(f.info)
             changed == key # fs.lastVideoInfoKey
         IN handleParsedFrames(Tail(frames),
               [lastVideoInfoKey |-> key,
                sent |-> fs.sent \o (IF changed
                                     THEN sendToRenderer(mainWindow, "player-video-info", f.info)
                                     ELSE <<>>),
                latestFrame |-> <<f>>,
                sendScheduled |-> TRUE,
                immediates |-> fs.immediates + (IF fs.sendScheduled THEN 0 ELSE 1)])

\* the helper's encoder: send_frame_packet, generalised to any header the
\* format allows.  Numbers below 2^31 only.
U16LE(n) == <<n % 256, n \div 256>>
U32LE(n) == <<n % 256, (n \div 256) % 256, (n \div 65536) % 256, n \div 16777216>>
send_frame_packet(p) ==
    U32LE(FRAME_MAGIC) \o U16LE(p.version) \o U16LE(p.header_size)
    \o U32LE(p.width) \o U32LE(p.height) \o U32LE(p.stride) \o U32LE(p.format)
    \o p.pts \o U32LE(Len(p.data)) \o U32LE(p.frame_id)
    \o Zeros(p.header_size - FRAME_HEADER_SIZE)
    \o p.data

\* --------------------------------------------------------- frame streams
\* A stream is a run of arbitrary bytes followed by packets the helper encodes.
AllOnes == <<255, 255, 255, 255, 255, 255, 255, 255>>
U64LE(n) == U32LE(n) \o <<0, 0, 0, 0>>
Packet(w, h, pts, id, data) ==
    [version |-> 1, header_size |-> FRAME_HEADER_SIZE, width |-> w, height |-> h,
     stride |-> 4 * w, format |-> FRAME_FORMAT_RGBA, pts |-> pts, frame_id |-> id,
     data |-> data]
StreamBytes(in) ==
    in.prefix \o Flatten([i \in 1..Len(in.packets) |-> send_frame_packet(in.packets[i])])
NoStream == [prefix |-> <<>>, packets |-> <<>>]
SmallStream == [prefix |-> <<>>, packets |-> <<Packet(2, 1, U64LE(33), 1, <<9, 8>>)>>]

\* packets of every shape the format allows: two bytes of payload, an
\* extended header without payload, a pts of all ones (GST_CLOCK_TIME_NONE),
\* and a payload that spells the magic
Packets == {
    Packet(2, 1, U64LE(33), 1, <<9, 8>>),
    [Packet(2, 1, U64LE(66), 2, <<>>) EXCEPT !.header_size = 42],
    Packet(3, 1, AllOnes, 3, <<7>>),
    Packet(1, 1, U64LE(99), 4, magicBytes) }
RECURSIVE SeqsUpTo(_, _)
SeqsUpTo(S, n) ==
    IF n = 0 THEN {<<>>}
    ELSE LET shorter == SeqsUpTo(S, n - 1)
         IN shorter \cup {Append(q, x) : q \in shorter, x \in S}
WellFormedStreams ==
    {[prefix |-> <<>>, packets |-> ps] : ps \in SeqsUpTo(Packets, MaxFrames) \ {<<>>}}

\* damaged data in front of one clean packet: a few stray bytes, 40 bytes
\* without a magic, a packet that lost its first byte, and a packet cut short
\* in its payload
CleanPacket == Packet(2, 1, U64LE(33), 5, <<9, 8>>)
Damaged == {
    <<1, 2, 3, 4, 5>>,
    [i \in 1..FRAME_HEADER_SIZE |-> 1],
    Tail(send_frame_packet(Packet(2, 1, U64LE(33), 1, <<9, 8>>))),
    SubSeq(send_frame_packet(Packet(2, 1, U64LE(33), 1, <<9, 8, 7, 6, 5>>)),
           1, FRAME_HEADER_SIZE + 2) }
DamagedStreams == {[prefix |-> d, packets |-> <<CleanPacket>>] : d \in Damaged}
\* frames of a format other than RGBA, each followed by an RGBA frame
OtherFormats == {
    [Packet(2, 2, U64LE(11), 6, <<5, 6, 7>>) EXCEPT !.format = 2],
    [Packet(4, 1, U64LE(22), 7, <<>>) EXCEPT !.format = 0, !.header_size = 42] }
SkippedStreams ==
    {[prefix |-> <<>>, packets |-> <<s, p>>] : s \in OtherFormats, p \in Packets}
\* a frame of a version the decoder does not know, then an RGBA frame
UnknownVersion == [Packet(2, 1, U64LE(33), 8, <<9, 8>>) EXCEPT !.version = 2]
VersionStreams ==
    {[prefix |-> send_frame_packet(UnknownVersion), packets |-> <<CleanPacket>>]}
FrameStreams == WellFormedStreams \cup DamagedStreams \cup SkippedStreams \cup VersionStreams
FrameChunkSizes == {1, 7, 40, 64}

\* ------------------------------------------------------------------- Init
HelperInit ==
    /\ frame_queue = <<>>
    /\ frame_queue_size = 0
    /\ frame_id_counter = 0
    /\ producerPc = "idle"
    /\ writerPc = "pop"
    /\ writerPacket = 0
    /\ pipeline = "NULL"
    /\ want_playing = FALSE
    /\ buffering = FALSE
    /\ is_playing = FALSE
    /\ userIntent = FALSE
    /\ endedSince = FALSE
    /\ helperCall = <<>>

\* Date.now() when the process starts (any value above the throttle)
StartTime == 1000
StatusInit ==
    /\ mpvState = [playing |-> FALSE, volume |-> 100, muted |-> FALSE,
                   position |-> 0, duration |-> 0]
    /\ lastStatusUpdate = 0
    /\ lastGstStatusUpdate = 0
    /\ now = StartTime
    /\ statusLog = <<>>
    /\ pushLog = <<>>

\* main has connected the frame socket, set frame_writer_running and started
\* the writer thread; the main loop runs
HelperProcInit ==
    helperProc = [mainPc |-> "loop", frame_writer_running |-> TRUE, frame_socket_fd |-> TRUE,
                  part |-> "none", left |-> 0, wire |-> <<>>]
\* the preload script has run: no listener, lastReady = null (the empty
\* sequence; a value b is <<b>>); flag is what each callback of the page was
\* last called with on the ready channel, called the callbacks the last
\* handler invoked
ListenerKinds == {"ready", "status", "warning", "error", "frame", "video-info"}
Callbacks == {"a", "b"}
PreloadInit ==
    preload = [lastReady |-> <<>>,
               listeners |-> [k \in ListenerKinds |-> {}],
               flag |-> [cb \in Callbacks |-> <<>>],
               called |-> {}]
RectInit == rectOut = <<>> /\ cmdOut = <<>> /\ HelperProcInit /\ PreloadInit

UiInit ==
    /\ uiReady = FALSE
    /\ uiCalls = <<>>
    /\ currentChannel = <<>>
    /\ uiPlaying = FALSE
    /\ uiError = "null"
    /\ uiLoads = <<>>

Init ==
    /\ HelperInit
    /\ StatusInit
    /\ RectInit
    /\ UiInit
    /\ platform \in Platforms
    /\ scenario \in (IF platform = "linux" THEN Scenarios ELSE {"commands"})
    /\ appPc = "launch"
    /\ mainWindow = "null"
    /\ justStopped = FALSE
    /\ sent = <<>>
    /\ ret = "none"
    /\ gstProcess = "null"
    /\ gstStdin = FALSE
    /\ gstAlive = FALSE
    /\ gstBuffer = <<>>
    /\ gstReady = FALSE
    /\ gstRequestId = 0
    /\ gstPendingRequests = {}
    /\ gstTimers = <<>>
    /\ gstOutcome = [i \in GstIds |-> <<>>]
    /\ gstWritten = <<>>
    /\ gstStderrTail = <<>>
    /\ gstStderrCount = 0
    /\ gstLastRect = NullRect
    /\ gstViewport = NoViewport
    /\ gstFrameServer = "null"
    /\ gstFrameSocketPath = "null"
    /\ frameSocketFile = FALSE
    /\ gstFrameBuffer = <<>>
    /\ gstLastVideoInfoKey = <<>>
    /\ gstFrameSendScheduled = FALSE
    /\ gstLatestFrame = <<>>
    /\ frameImmediates = 0
    /\ frameConn = FALSE
    /\ frameInput = IF scenario = "supervision" THEN SmallStream ELSE NoStream
    /\ frameWire = StreamBytes(frameInput)
    /\ chunkSizes = {21}
    /\ framesParsed = <<>>
    /\ decodePc = "idle"
    /\ mpvProcess = "null"
    /\ mpvAlive = FALSE
    /\ mpvSocket = "null"
    /\ mpvConn = "none"
    /\ mpvSocketFile = FALSE
    /\ mpvInitPc = "idle"
    /\ mpvLineBuffer = <<>>
    /\ mpvLoadPc = 0
    /\ requestId = 0
    /\ pendingRequests = {}
    /\ mpvTimers = <<>>
    /\ mpvOutcome = [i \in MpvIds |-> <<>>]
    /\ mpvWritten = <<>>

\* ------------------------------------------------------- stop of the helper
\* the pending map loop of killGst: every entry is rejected and deleted
RejectAll(outcome, pending, why) ==
    [i \in DOMAIN outcome |-> IF i \in pending THEN Append(outcome[i], why) ELSE outcome[i]]

\* variant: the server is closed but its socket path stays registered
stopFrameServerKeepsPath ==
    /\ gstFrameServer' = "null"
    /\ gstLastVideoInfoKey' = <<>>
    /\ gstLatestFrame' = <<>>
    /\ gstFrameSendScheduled' = FALSE
    /\ gstFrameBuffer' = <<>>
    /\ UNCHANGED <<gstFrameSocketPath, frameSocketFile>>
\* stopFrameServer
stopFrameServer ==
    /\ gstFrameServer' = "null"
    /\ frameSocketFile' = IF gstFrameSocketPath # "null" /\ frameSocketFile
                          THEN FALSE ELSE frameSocketFile
    /\ gstFrameSocketPath' = "null"
    /\ gstLastVideoInfoKey' = <<>>
    /\ gstLatestFrame' = <<>>
    /\ gstFrameSendScheduled' = FALSE
    /\ gstFrameBuffer' = <<>>

\* variant: the pending requests are rejected but stay in the map
killGstRejectsOnly ==
    /\ gstProcess' = "null"
    /\ gstBuffer' = <<>>
    /\ gstReady' = FALSE
    /\ gstStderrTail' = <<>>
    /\ gstLastRect' = NullRect
    /\ gstViewport' = NoViewport
    /\ stopFrameServer
    /\ gstOutcome' = RejectAll(gstOutcome, gstPendingRequests, "stopped")
    /\ UNCHANGED gstPendingRequests
\* killGst (the resize handler is only installed by the window-embedding branch
\* of initGst, which the appsink build never takes)
killGst ==
    /\ gstProcess' = "null"
    /\ gstBuffer' = <<>>
    /\ gstReady' = FALSE
    /\ gstStderrTail' = <<>>
    /\ gstLastRect' = NullRect
    /\ gstViewport' = NoViewport
    /\ stopFrameServer
    /\ gstOutcome' = RejectAll(gstOutcome, gstPendingRequests, "stopped")
    /\ gstPendingRequests' = {}

\* -------------------------------------------------- text-line command channel
GstCommands == {"play"}

Digits == <<"0", "1", "2", "3", "4", "5", "6", "7", "8", "9">>
\* Number.prototype.toString of a request id
IdToString(n) == Digits[n + 1]
\* the regular expression \d+ on one word
IsDigits(w) == \E n \in 0..9 : Digits[n + 1] = w
\* Number.parseInt(word, 10)
ParseInt(w) == CHOOSE n \in 0..9 : Digits[n + 1] = w

\* variant: a line is put in front of what was written before
writeFirst(stream, payload) == <<payload>> \o stream
\* stdin.write(payload) and mpvSocket.write(line): the line goes out behind
\* everything written before
write(stream, payload) == Append(stream, payload)

\* variant: only the process handle is tested, not its stdin
sendGstCommandNoStdinTest(command, writeThrows) ==
    /\ platform = "linux"
    /\ mainWindow # "null"
    /\ appPc \in {"created", "running"}
    /\ IF gstProcess = "null"
       THEN /\ ret' = "resolved: GStreamer helper not running"
            /\ UNCHANGED gstCmdVars
       ELSE /\ gstRequestId < CommandBudget
            /\ LET id == gstRequestId + 1 IN
               /\ gstRequestId' = id
               /\ ret' = "pending"
               /\ IF writeThrows
                  THEN /\ gstPendingRequests' = gstPendingRequests \ {id}
                       /\ gstOutcome' = [gstOutcome EXCEPT ![id] = Append(@, "writefail")]
                       /\ UNCHANGED <<gstTimers, gstWritten>>
                  ELSE /\ gstPendingRequests' = gstPendingRequests \cup {id}
                       /\ gstWritten' = write(gstWritten, <<command, IdToString(id)>>)
                       /\ gstTimers' = Append(gstTimers, id)
                       /\ UNCHANGED gstOutcome
    /\ sent' = <<>>
    /\ justStopped' = FALSE
    /\ UNCHANGED <<mpvVars, envVars, statusVars, appPc, mainWindow, gstProcVars, gstFrameVars>>

\* sendGstCommand, called by the ipcMain handlers mpv-play .. mpv-get-status
sendGstCommand(command, writeThrows) ==
    /\ platform = "linux"
    /\ mainWindow # "null"
    /\ appPc \in {"created", "running"}
    /\ IF gstProcess = "null" \/ ~gstStdin
       THEN /\ ret' = "resolved: GStreamer helper not running"
            /\ UNCHANGED gstCmdVars
       ELSE /\ gstRequestId < CommandBudget
            /\ LET id == gstRequestId + 1 IN
               /\ gstRequestId' = id
               /\ ret' = "pending"
               /\ IF writeThrows
                  THEN /\ gstPendingRequests' = gstPendingRequests \ {id}
                       /\ gstOutcome' = [gstOutcome EXCEPT ![id] = Append(@, "writefail")]
                       /\ UNCHANGED <<gstTimers, gstWritten>>
                  ELSE /\ gstPendingRequests' = gstPendingRequests \cup {id}
                       /\ gstWritten' = write(gstWritten, <<command, IdToString(id)>>)
                       /\ gstTimers' = Append(gstTimers, id)
                       /\ UNCHANGED gstOutcome
    /\ sent' = <<>>
    /\ justStopped' = FALSE
    /\ UNCHANGED <<mpvVars, envVars, statusVars, appPc, mainWindow, gstProcVars, gstFrameVars>>

\* variant: the timer callback rejects without looking in the map
GstTimeoutUnguarded(id) ==
    /\ appPc # "quit"
    /\ gstTimers # <<>>
    /\ id = Head(gstTimers)
    /\ gstTimers' = Tail(gstTimers)
    /\ gstPendingRequests' = gstPendingRequests \ {id}
    /\ gstOutcome' = [gstOutcome EXCEPT ![id] = Append(@, "timeout")]
    /\ sent' = <<>>
    /\ justStopped' = FALSE
    /\ ret' = "none"
    /\ UNCHANGED <<mpvVars, envVars, statusVars, appPc, mainWindow, gstRequestId, gstWritten,
                   gstProcVars, gstFrameVars>>

\* the setTimeout callback of sendGstCommand
GstTimeout(id) ==
    /\ appPc # "quit"
    /\ gstTimers # <<>>
    /\ id = Head(gstTimers)
    /\ gstTimers' = Tail(gstTimers)
    /\ IF id \in gstPendingRequests
       THEN /\ gstPendingRequests' = gstPendingRequests \ {id}
            /\ gstOutcome' = [gstOutcome EXCEPT ![id] = Append(@, "timeout")]
       ELSE UNCHANGED <<gstPendingRequests, gstOutcome>>
    /\ sent' = <<>>
    /\ justStopped' = FALSE
    /\ ret' = "none"
    /\ UNCHANGED <<mpvVars, envVars, statusVars, appPc, mainWindow, gstRequestId, gstWritten,
                   gstProcVars, gstFrameVars>>

\* ------------------------------------------------------- status lines
\* A status line is the word "status" followed by its space-separated parts;
\* a part is a sequence of tokens: a key word, "=", and the characters of the
\* value.  Seconds are counted in thousandths.

\* String.prototype.split on one separator token
RECURSIVE Split(_, _)
Split(s, sep) ==
    IF s = <<>> THEN << <<>> >>
    ELSE LET r == Split(Tail(s), sep) IN
         IF Head(s) = sep THEN << <<>> >> \o r
         ELSE << <<Head(s)>> \o r[1] >> \o Tail(r)

\* the leading run of decimal digits of a string
RECURSIVE DigitRun(_)
DigitRun(s) ==
    IF s # <<>> /\ IsDigits(Head(s)) THEN <<Head(s)>> \o DigitRun(Tail(s)) ELSE <<>>
\* the number a run of decimal digits denotes
RECURSIVE DigitsValue(_)
DigitsValue(s) ==
    IF s = <<>> THEN 0 ELSE 10 * DigitsValue(SubSeq(s, 1, Len(s) - 1)) + ParseInt(s[Len(s)])
Unsigned(s) == IF s # <<>> /\ Head(s) \in {"-", "+"} THEN Tail(s) ELSE s
Sign(s) == IF s # <<>> /\ Head(s) = "-" THEN -1 ELSE 1

\* Number.parseInt(s, 10): an optional sign and the leading digits
parseInt(s) ==
    LET run == DigitRun(Unsigned(s)) IN
    [nan |-> run = <<>>, value |-> Sign(s) * DigitsValue(run)]

\* Number.parseFloat(s), in thousandths: an optional sign, digits, and an
\* optional fraction
parseFloat(s) ==
    LET whole == DigitRun(Unsigned(s))
        rest == SubSeq(Unsigned(s), Len(whole) + 1, Len(Unsigned(s)))
        frac == IF rest # <<>> /\ Head(rest) = "." THEN DigitRun(Tail(rest)) ELSE <<>>
        milli == SubSeq(frac \o <<"0", "0", "0">>, 1, 3)
    IN [nan |-> whole = <<>> /\ frac = <<>>,
        value |-> Sign(s) * (1000 * DigitsValue(whole) + DigitsValue(milli))]

\* x || fallback on a parsed number
OrElse(n, fallback) == IF n.nan \/ n.value = 0 THEN fallback ELSE n.value

\* printf("%d") and printf("%.3f") of the helper
RECURSIVE FormatNat(_)
FormatNat(n) == IF n < 10 THEN <<Digits[n + 1]>> ELSE FormatNat(n \div 10) \o <<Digits[(n % 10) + 1]>>
FormatInt(n) == IF n < 0 THEN <<"-">> \o FormatNat(-n) ELSE FormatNat(n)
FormatFixed3(milli) ==
    LET m == IF milli < 0 THEN -milli ELSE milli IN
    (IF milli < 0 THEN <<"-">> ELSE <<>>)
    \o FormatNat(m \div 1000) \o <<".">>
    \o <<Digits[((m \div 100) % 10) + 1], Digits[((m \div 10) % 10) + 1], Digits[(m % 10) + 1]>>

\* emit_status of the helper
emit_status(playing, volume, muted, position, duration, buffer_flag) ==
    <<"status",
      <<"playing", "=">> \o FormatInt(IF playing THEN 1 ELSE 0),
      <<"volume", "=">> \o FormatInt(volume),
      <<"muted", "=">> \o FormatInt(IF muted THEN 1 ELSE 0),
      <<"position", "=">> \o FormatFixed3(position),
      <<"duration", "=">> \o FormatFixed3(duration),
      <<"buffering", "=">> \o FormatInt(IF buffer_flag THEN 1 ELSE 0)>>

\* one pass of the loop of handleGstStatus over a part
mergeGstPart(part, state) ==
    LET segs == Split(part, "=")
        key == segs[1]
        hasValue == Len(segs) >= 2
        rawValue == IF hasValue THEN segs[2] ELSE <<"0">>
    IN IF key = <<>> THEN state
       ELSE IF key = <<"playing">>
       THEN [state EXCEPT !.playing = hasValue /\ segs[2] = <<"1">>]
       ELSE IF key = <<"volume">>
       THEN [state EXCEPT !.volume = OrElse(parseInt(rawValue), 0)]
       ELSE IF key = <<"muted">>
       THEN [state EXCEPT !.muted = hasValue /\ segs[2] = <<"1">>]
       ELSE IF key = <<"position">>
       THEN [state EXCEPT !.position = OrElse(parseFloat(rawValue), 0)]
       ELSE IF key = <<"duration">>
       THEN [state EXCEPT !.duration = OrElse(parseFloat(rawValue), 0)]
       ELSE state

RECURSIVE mergeGstParts(_, _)
mergeGstParts(parts, state) ==
    IF parts = <<>> THEN state
    ELSE mergeGstParts(Tail(parts), mergeGstPart(Head(parts), state))

\* variant: the loop starts one part late
mergeGstStatusSkipFirst(line, state) == mergeGstParts(Tail(Tail(line)), state)
\* the merge of handleGstStatus: parts.slice(1) applied in order
mergeGstStatus(line, state) == mergeGstParts(Tail(line), state)

STATUS_THROTTLE_MS == 100

\* variant: the send is not throttled
pushStatusUnthrottled(st) ==
    [st EXCEPT !.last = now,
               !.sent = @ \o sendToRenderer(mainWindow, "mpv-status", st.state),
               !.pushes = IF mainWindow # "null"
                          THEN Append(@, [at |-> now, data |-> st.state,
                                          seen |-> Len(st.log)])
                          ELSE @]
\* the throttled send that ends handleGstStatus and the property-change
\* branch of handleMpvMessage
pushStatus(st) ==
    IF now - st.last > STATUS_THROTTLE_MS
    THEN [st EXCEPT !.last = now,
                    !.sent = @ \o sendToRenderer(mainWindow, "mpv-status", st.state),
                    !.pushes = IF mainWindow # "null"
                               THEN Append(@, [at |-> now, data |-> st.state,
                                               seen |-> Len(st.log)])
                               ELSE @]
    ELSE st

\* handleGstStatus
handleGstStatus(line, st) ==
    pushStatus([st EXCEPT !.state = mergeGstStatus(line, st.state),
                          !.log = Append(@, [kind |-> "gst", line |-> line])])

\* variant: a reply settles the oldest pending request
handleGstResultOldest(line, st) ==
    IF ~(Len(line) >= 3 /\ line[1] = "result" /\ IsDigits(line[2])
         /\ line[3] \in {"ok", "error"})
    THEN st
    ELSE IF st.pending = {} THEN st
    ELSE LET oldest == CHOOSE i \in st.pending : \A j \in st.pending : i <= j
         IN [st EXCEPT !.pending = @ \ {oldest},
                       !.outcome[oldest] = Append(@, line[3])]
\* handleGstResult on a trimmed line (a sequence of words); st carries the
\* fields a line handler can change
handleGstResult(line, st) ==
    IF ~(Len(line) >= 3 /\ line[1] = "result" /\ IsDigits(line[2])
         /\ line[3] \in {"ok", "error"})
    THEN st
    ELSE LET resultId == ParseInt(line[2])
             status == line[3]
         IN IF resultId \notin st.pending
            THEN st
            ELSE [st EXCEPT !.pending = @ \ {resultId},
                            !.outcome[resultId] = Append(@, status)]

\* handleGstLine (status lines are merged by handleGstStatus)
handleGstLine(line, st) ==
    IF line[1] = "ready"
    THEN [st EXCEPT !.ready = TRUE,
                    !.sent = @ \o sendToRenderer(mainWindow, "mpv-ready", TRUE)]
    ELSE IF line[1] = "status" /\ Len(line) >= 2
    THEN handleGstStatus(line, st)
    ELSE IF line[1] = "debug" /\ Len(line) >= 2
    THEN st
    ELSE IF line[1] = "error" /\ Len(line) >= 2
    THEN [st EXCEPT !.sent = @ \o sendToRenderer(mainWindow, "mpv-error", Tail(line))]
    ELSE IF line[1] = "warning" /\ Len(line) >= 2
    THEN [st EXCEPT !.sent = @ \o sendToRenderer(mainWindow, "mpv-warning", Tail(line))]
    ELSE IF line[1] = "result" /\ Len(line) >= 2
    THEN handleGstResult(line, st)
    ELSE st

\* variant: the loop over the lines of a chunk ends after its first line
handleGstLinesFirstOnly(lines, st) ==
    IF lines = <<>> THEN st
    ELSE IF Head(lines) # <<>> THEN handleGstLine(Head(lines), st) ELSE st
RECURSIVE handleGstLines(_, _)
handleGstLines(lines, st) ==
    IF lines = <<>> THEN st
    ELSE handleGstLines(Tail(lines),
                        IF Head(lines) # <<>> THEN handleGstLine(Head(lines), st) ELSE st)

\* lines the helper may print, and the ways its output is cut into chunks:
\* a chunk is the list data.split('\n') yields, its last piece being the text
\* after the last newline
GstLines == {
    <<"ready", "1">>,
    <<"result", "1", "ok">>,
    <<"result", "2", "error", "failed">>,
    <<"result", "3", "ok">>,
    <<"result", "x", "ok">>,
    <<"2", "ok">>,
    <<"error", "boom">>,
    <<"warning", "slow">>,
    <<"debug", "x">>,
    <<>> }
GstPartials == { <<"result">>, <<"result", "1">> }
GstChunks == {<<l, <<>>>> : l \in GstLines}
             \cup {<<p>> : p \in GstPartials}
             \cup {<<<<"result", "1", "ok">>, <<"result", "1", "ok">>, <<>>>>}

\* gstProcess.stdout.on('data')
gstStdoutOnData(chunk) ==
    /\ appPc # "quit"
    /\ gstAlive
    /\ Len(chunk) = 1 => gstBuffer = <<>>
    /\ LET pieces == [chunk EXCEPT ![1] = gstBuffer \o chunk[1]]
           lines == SubSeq(pieces, 1, Len(pieces) - 1)
           st == handleGstLines(lines, [pending |-> gstPendingRequests,
                                        outcome |-> gstOutcome,
                                        ready |-> gstReady,
                                        sent |-> <<>>,
                                        state |-> mpvState,
                                        last |-> lastGstStatusUpdate,
                                        log |-> statusLog,
                                        pushes |-> pushLog])
       IN /\ gstBuffer' = pieces[Len(pieces)]
          /\ gstPendingRequests' = st.pending
          /\ gstOutcome' = st.outcome
          /\ gstReady' = st.ready
          /\ sent' = st.sent
          /\ mpvState' = st.state
          /\ lastGstStatusUpdate' = st.last
          /\ statusLog' = st.log
          /\ pushLog' = st.pushes
    /\ justStopped' = FALSE
    /\ ret' = "none"
    /\ UNCHANGED <<mpvVars, platform, scenario, helperVars, uiVars, rectOut, helperProc, preload, lastStatusUpdate, now, appPc, mainWindow, gstRequestId, gstTimers, gstWritten,
                   gstProcess, gstStdin, gstAlive, gstStderrTail, gstStderrCount,
                   gstLastRect, gstViewport, gstFrameVars>>
GstStdoutData(chunk) == gstStdoutOnData(chunk) /\ UNCHANGED cmdOut

\* stderr chunks: the next k non-empty lines, numbered in the order written,
\* mixed with blank and white-space lines (0 is a white-space character)
StderrChunks(n) == {
    << <<n + 1>> >>,
    << <<0, n + 1, 0>>, <<>> >>,
    << <<n + 1>>, <<0>>, <<n + 2>>, <<>> >>,
    << <<0>>, <<>> >> }
NonEmptyLines(chunk) == SelectSeq([i \in 1..Len(chunk) |-> Trim(chunk[i])], LAMBDA l : Len(l) > 0)

\* gstProcess.stderr.on('data')
GstStderrData(chunk) ==
    /\ appPc # "quit"
    /\ gstAlive
    /\ LET lines == NonEmptyLines(chunk) IN
       /\ gstStderrCount + Len(lines) <= StderrBudget
       /\ gstStderrCount' = gstStderrCount + Len(lines)
       /\ gstStderrTail' = IF Len(lines) > 0
                           THEN SliceLast(gstStderrTail \o lines, GST_STDERR_TAIL_MAX)
                           ELSE gstStderrTail
    /\ sent' = <<>>
    /\ justStopped' = FALSE
    /\ ret' = "none"
    /\ UNCHANGED <<mpvVars, envVars, statusVars, appPc, mainWindow, gstCmdVars,
                   gstProcess, gstStdin, gstAlive, gstBuffer, gstReady,
                   gstLastRect, gstViewport, gstFrameVars>>

\* gstProcess.on('error')
GstProcessError ==
    /\ appPc # "quit"
    /\ gstAlive
    /\ sent' = sendToRenderer(mainWindow, "mpv-error", <<"spawn", "failed">>)
    /\ justStopped' = FALSE
    /\ ret' = "none"
    /\ UNCHANGED <<mpvVars, envVars, statusVars, appPc, mainWindow, gstVars>>

ExitCodes == {"code 1", "code unknown signal SIGTERM"}

\* gstProcess.on('exit')
GstProcessExit(exitInfo) ==
    /\ appPc # "quit"
    /\ gstAlive
    /\ gstAlive' = FALSE
    /\ sent' = sendToRenderer(mainWindow, "mpv-ready", FALSE)
               \o sendToRenderer(mainWindow, "mpv-error",
                                 <<"GStreamer helper exited", exitInfo, gstStderrTail>>)
    /\ killGst
    \* bytes the helper had written stay readable on the frame connection
    /\ frameConn' = (frameConn /\ frameWire # <<>>)
    /\ justStopped' = FALSE
    /\ ret' = "none"
    /\ UNCHANGED <<mpvVars, envVars, statusVars, appPc, mainWindow, gstStdin, gstRequestId,
                   gstTimers, gstWritten, gstStderrCount, frameImmediates, frameInput,
                   frameWire, chunkSizes, framesParsed, decodePc>>

\* ------------------------------------------------------------ frame server
\* startFrameServer
startFrameServer ==
    IF gstFrameServer # "null"
    THEN UNCHANGED <<gstFrameServer, gstFrameSocketPath, frameSocketFile>>
    ELSE /\ gstFrameSocketPath' = "path"
         /\ gstFrameServer' = "server"
         /\ frameSocketFile' = TRUE

\* the frame socket's connection listener
FrameConnect ==
    /\ appPc # "quit"
    /\ gstAlive
    /\ gstFrameServer # "null"
    /\ ~frameConn
    /\ frameWire # <<>>
    /\ frameConn' = TRUE
    /\ gstFrameBuffer' = <<>>
    /\ sent' = <<>>
    /\ justStopped' = FALSE
    /\ ret' = "none"
    /\ UNCHANGED <<mpvVars, envVars, statusVars, appPc, mainWindow, gstCmdVars, gstProcVars,
                   gstFrameServer, gstFrameSocketPath, frameSocketFile, gstLastVideoInfoKey,
                   gstFrameSendScheduled, gstLatestFrame, frameImmediates, frameInput,
                   frameWire, chunkSizes, framesParsed, decodePc>>

\* socket.on('data') of the frame connection: the next n bytes arrive
FrameSocketData(n) ==
    /\ appPc # "quit"
    /\ frameConn
    /\ frameWire # <<>>
    /\ n \in chunkSizes
    /\ LET k == Min(n, Len(frameWire))
           chunk == SubSeq(frameWire, 1, k)
           parsed == parseFrameBuffer(gstFrameBuffer \o chunk, <<>>)
           fs == handleParsedFrames(parsed.frames,
                                    [lastVideoInfoKey |-> gstLastVideoInfoKey,
                                     sent |-> <<>>,
                                     latestFrame |-> gstLatestFrame,
                                     sendScheduled |-> gstFrameSendScheduled,
                                     immediates |-> frameImmediates])
       IN /\ frameWire' = SubSeq(frameWire, k + 1, Len(frameWire))
          /\ gstFrameBuffer' = parsed.buffer
          /\ framesParsed' = framesParsed \o parsed.frames
          /\ gstLastVideoInfoKey' = fs.lastVideoInfoKey
          /\ gstLatestFrame' = fs.latestFrame
          /\ gstFrameSendScheduled' = fs.sendScheduled
          /\ frameImmediates' = fs.immediates
          /\ sent' = fs.sent
    /\ justStopped' = FALSE
    /\ ret' = "none"
    /\ UNCHANGED <<mpvVars, envVars, statusVars, appPc, mainWindow, gstCmdVars, gstProcVars,
                   gstFrameServer, gstFrameSocketPath, frameSocketFile, frameConn, frameInput,
                   chunkSizes, decodePc>>

\* the setImmediate callback of scheduleFrameSend
FrameSendCallback ==
    /\ appPc # "quit"
    /\ decodePc = "idle"
    /\ frameImmediates > 0
    /\ frameImmediates' = frameImmediates - 1
    /\ gstFrameSendScheduled' = FALSE
    /\ IF gstLatestFrame = <<>> \/ mainWindow = "null"
       THEN /\ sent' = <<>>
            /\ UNCHANGED gstLatestFrame
       ELSE /\ gstLatestFrame' = <<>>
            /\ sent' = sendToRenderer(mainWindow, "player-frame", gstLatestFrame[1])
    /\ justStopped' = FALSE
    /\ ret' = "none"
    /\ UNCHANGED <<mpvVars, envVars, statusVars, appPc, mainWindow, gstCmdVars, gstProcVars,
                   gstFrameServer, gstFrameSocketPath, frameSocketFile, gstFrameBuffer,
                   gstLastVideoInfoKey, frameConn, frameInput, frameWire, chunkSizes,
                   framesParsed, decodePc>>

\* socket.on('data') of the frame connection up to the call of
\* parseFrameBuffer: the chunk is appended and the decode loop entered
DecodeChunk(n) ==
    /\ appPc # "quit"
    /\ frameConn
    /\ frameWire # <<>>
    /\ n \in chunkSizes
    /\ decodePc = "idle"
    /\ LET k == Min(n, Len(frameWire))
       IN /\ gstFrameBuffer' = gstFrameBuffer \o SubSeq(frameWire, 1, k)
          /\ frameWire' = SubSeq(frameWire, k + 1, Len(frameWire))
    /\ decodePc' = "loop"
    /\ sent' = <<>>
    /\ justStopped' = FALSE
    /\ ret' = "none"
    /\ UNCHANGED <<mpvVars, envVars, statusVars, appPc, mainWindow, gstCmdVars, gstProcVars,
                   gstFrameServer, gstFrameSocketPath, frameSocketFile, gstLastVideoInfoKey,
                   gstFrameSendScheduled, gstLatestFrame, frameImmediates, frameConn,
                   frameInput, chunkSizes, framesParsed>>

\* the loop test of parseFrameBuffer and, when it passes, one iteration
DecodeIteration ==
    /\ decodePc = "loop"
    /\ IF Len(gstFrameBuffer) < FRAME_HEADER_SIZE
       THEN /\ decodePc' = "idle"
            /\ UNCHANGED <<gstFrameBuffer, framesParsed, gstLastVideoInfoKey, gstLatestFrame,
                           gstFrameSendScheduled, frameImmediates, sent>>
       ELSE LET it == decodeIteration(gstFrameBuffer)
                fs == handleParsedFrames(it.frames,
                                         [lastVideoInfoKey |-> gstLastVideoInfoKey,
                                          sent |-> sent,
                                          latestFrame |-> gstLatestFrame,
                                          sendScheduled |-> gstFrameSendScheduled,
                                          immediates |-> frameImmediates])
            IN /\ gstFrameBuffer' = it.buffer
               /\ framesParsed' = framesParsed \o it.frames
               /\ gstLastVideoInfoKey' = fs.lastVideoInfoKey
               /\ gstLatestFrame' = fs.latestFrame
               /\ gstFrameSendScheduled' = fs.sendScheduled
               /\ frameImmediates' = fs.immediates
               /\ sent' = fs.sent
               /\ decodePc' = IF it.returns THEN "idle" ELSE "loop"
    /\ UNCHANGED <<mpvVars, envVars, statusVars, appPc, mainWindow, justStopped, ret,
                   gstCmdVars, gstProcVars, gstFrameServer, gstFrameSocketPath,
                   frameSocketFile, frameConn, frameInput, frameWire, chunkSizes>>

\* ------------------------------------------------------- mpv supervisor
\* killMpv
killMpv ==
    /\ mpvConn' = IF mpvSocket # "null" THEN "destroyed" ELSE mpvConn
    /\ mpvSocket' = "null"
    /\ mpvProcess' = "null"
    /\ mpvSocketFile' = IF platform # "win32" THEN FALSE ELSE mpvSocketFile

\* sendMpvCommand with a socket: cs carries the channel's fields
sendMpvCommand(cs, command) ==
    LET id == cs.requestId + 1 IN
    [requestId |-> id,
     pending |-> cs.pending \cup {id},
     written |-> write(cs.written, [command |-> command, request_id |-> id]),
     timers |-> Append(cs.timers, id)]

RECURSIVE sendMpvCommands(_, _)
sendMpvCommands(cs, commands) ==
    IF commands = <<>> THEN cs
    ELSE sendMpvCommands(sendMpvCommand(cs, Head(commands)), Tail(commands))

MpvChannel == [requestId |-> requestId, pending |-> pendingRequests,
               written |-> mpvWritten, timers |-> mpvTimers]
SetMpvChannel(cs) ==
    /\ requestId' = cs.requestId
    /\ pendingRequests' = cs.pending
    /\ mpvWritten' = cs.written
    /\ mpvTimers' = cs.timers

\* commands the renderer has issued so far
MpvUserCommands == requestId - (IF mpvInitPc = "done" THEN Len(ObservedProperties) ELSE 0)

\* initMpv up to its first await
initMpv(binaryFound) ==
    /\ platform # "linux"
    /\ appPc = "created"
    /\ appPc' = "running"
    /\ IF mainWindow = "null"
       THEN UNCHANGED <<mpvSocketFile, mpvProcess, mpvAlive, mpvInitPc>>
       ELSE /\ mpvSocketFile' = IF platform # "win32" THEN FALSE ELSE mpvSocketFile
            /\ IF binaryFound
               THEN /\ mpvProcess' = "proc"
                    /\ mpvAlive' = TRUE
                    /\ mpvInitPc' = "waitSocket"
               ELSE UNCHANGED <<mpvProcess, mpvAlive, mpvInitPc>>
    /\ sent' = <<>>
    /\ justStopped' = FALSE
    /\ ret' = "none"
    /\ UNCHANGED <<envVars, statusVars, mainWindow, gstVars, mpvCmdVars,
                   mpvSocket, mpvConn, mpvLineBuffer, mpvLoadPc>>

\* mpv creates its IPC socket (--input-ipc-server)
MpvCreatesSocket ==
    /\ appPc # "quit"
    /\ mpvAlive
    /\ mpvInitPc = "waitSocket"
    /\ ~mpvSocketFile
    /\ mpvSocketFile' = TRUE
    /\ sent' = <<>>
    /\ justStopped' = FALSE
    /\ ret' = "none"
    /\ UNCHANGED <<envVars, statusVars, appPc, mainWindow, gstVars, mpvCmdVars,
                   mpvProcess, mpvAlive, mpvSocket, mpvConn, mpvInitPc, mpvLineBuffer,
                   mpvLoadPc>>

\* initMpv from the end of waitForMpvSocket to the await in connectToMpvSocket,
\* or to its catch block when the wait timed out
MpvSocketWait(timedOut) ==
    /\ appPc # "quit"
    /\ mpvInitPc = "waitSocket"
    /\ platform = "win32" \/ mpvSocketFile \/ timedOut
    /\ IF platform = "win32" \/ mpvSocketFile
       THEN /\ mpvSocket' = "socket"
            /\ mpvConn' = "connecting"
            /\ mpvLineBuffer' = <<>>
            /\ mpvInitPc' = "connecting"
            /\ sent' = <<>>
       ELSE /\ mpvInitPc' = "failed"
            /\ sent' = sendToRenderer(mainWindow, "mpv-error",
                                      <<"Timed", "out", "waiting", "for", "mpv", "IPC", "socket">>)
            /\ UNCHANGED <<mpvSocket, mpvConn, mpvLineBuffer>>
    /\ justStopped' = FALSE
    /\ ret' = "none"
    /\ UNCHANGED <<envVars, statusVars, appPc, mainWindow, gstVars, mpvCmdVars,
                   mpvProcess, mpvAlive, mpvSocketFile, mpvLoadPc>>

\* mpvSocket.on('connect'), then the rest of initMpv
MpvSocketConnect ==
    /\ appPc # "quit"
    /\ mpvConn = "connecting"
    /\ mpvAlive
    /\ mpvConn' = "connected"
    /\ mpvInitPc' = "done"
    /\ SetMpvChannel(sendMpvCommands(MpvChannel,
                                     [i \in 1..Len(ObservedProperties) |-> "observe_property"]))
    /\ sent' = sendToRenderer(mainWindow, "mpv-ready", TRUE)
    /\ justStopped' = FALSE
    /\ ret' = "none"
    /\ UNCHANGED <<envVars, statusVars, appPc, mainWindow, gstVars, mpvOutcome,
                   mpvProcess, mpvAlive, mpvSocket, mpvSocketFile, mpvLineBuffer, mpvLoadPc>>

\* mpvSocket.on('error'), then the catch block of initMpv if it still awaits
MpvSocketError ==
    /\ appPc # "quit"
    /\ mpvConn \in {"connecting", "connected"}
    /\ mpvConn' = "failed"
    /\ IF mpvInitPc = "connecting"
       THEN /\ mpvInitPc' = "failed"
            /\ sent' = sendToRenderer(mainWindow, "mpv-error", <<"ECONNREFUSED">>)
       ELSE /\ sent' = <<>>
            /\ UNCHANGED mpvInitPc
    /\ justStopped' = FALSE
    /\ ret' = "none"
    /\ UNCHANGED <<envVars, statusVars, appPc, mainWindow, gstVars, mpvCmdVars,
                   mpvProcess, mpvAlive, mpvSocket, mpvSocketFile, mpvLineBuffer, mpvLoadPc>>

\* mpvProcess.on('error')
MpvProcessError ==
    /\ appPc # "quit"
    /\ mpvAlive
    /\ sent' = sendToRenderer(mainWindow, "mpv-error", <<"spawn", "failed">>)
    /\ justStopped' = FALSE
    /\ ret' = "none"
    /\ UNCHANGED <<envVars, statusVars, appPc, mainWindow, gstVars, mpvVars>>

\* mpvProcess.on('exit'); the peer of the socket is gone with the process
MpvProcessExit ==
    /\ appPc # "quit"
    /\ mpvAlive
    /\ mpvAlive' = FALSE
    /\ mpvProcess' = "null"
    /\ mpvConn' = IF mpvConn = "connected" THEN "closed" ELSE mpvConn
    /\ sent' = <<>>
    /\ justStopped' = FALSE
    /\ ret' = "none"
    /\ UNCHANGED <<envVars, statusVars, appPc, mainWindow, gstVars, mpvCmdVars,
                   mpvSocket, mpvSocketFile, mpvInitPc, mpvLineBuffer, mpvLoadPc>>

\* ------------------------------------------------ socket command channel
\* the switch of handleMpvMessage over the observed property; a message
\* without data reads as undefined
mergeMpvProperty(msg, state) ==
    LET has == "data" \in DOMAIN msg IN
    IF msg.name = "pause"
    THEN [state EXCEPT !.playing = ~(has /\ msg.data)]
    ELSE IF msg.name = "volume"
    THEN [state EXCEPT !.volume = IF has /\ msg.data # 0 THEN msg.data ELSE 100]
    ELSE IF msg.name = "mute"
    THEN [state EXCEPT !.muted = has /\ msg.data]
    ELSE IF msg.name = "time-pos"
    THEN [state EXCEPT !.position = IF has THEN msg.data ELSE 0]
    ELSE IF msg.name = "duration"
    THEN [state EXCEPT !.duration = IF has THEN msg.data ELSE 0]
    ELSE state

\* the property-change branch of handleMpvMessage
handleMpvEvent(msg, st) ==
    IF "event" \in DOMAIN msg /\ msg.event = "property-change"
    THEN pushStatus([st EXCEPT !.state = mergeMpvProperty(msg, st.state),
                               !.log = Append(@, [kind |-> "mpv", msg |-> msg])])
    ELSE st

\* variant: a reply settles its request without looking in the map
handleMpvMessageUnguarded(msg, st) ==
    LET ev == handleMpvEvent(msg, st) IN
    IF "request_id" \in DOMAIN msg /\ msg.request_id \in DOMAIN ev.outcome
    THEN [ev EXCEPT !.pending = @ \ {msg.request_id},
                    !.outcome[msg.request_id] =
                        Append(@, IF "error" \in DOMAIN msg /\ msg.error # "success"
                                  THEN "rejected" ELSE "resolved")]
    ELSE ev
\* handleMpvMessage on a parsed message
handleMpvMessage(msg, st) ==
    LET ev == handleMpvEvent(msg, st) IN
    IF "request_id" \in DOMAIN msg /\ msg.request_id \in ev.pending
    THEN [ev EXCEPT !.pending = @ \ {msg.request_id},
                    !.outcome[msg.request_id] =
                        Append(@, IF "error" \in DOMAIN msg /\ msg.error # "success"
                                  THEN "rejected" ELSE "resolved")]
    ELSE ev

\* a line is a sequence of fragments; JSON.parse accepts a line that is one
\* whole message
RECURSIVE handleMpvLines(_, _)
handleMpvLines(lines, st) ==
    IF lines = <<>> THEN st
    ELSE LET line == Head(lines) IN
         handleMpvLines(Tail(lines),
                        IF Len(line) = 1 /\ line[1].json
                        THEN handleMpvMessage(line[1].msg, st) ELSE st)

MpvMessages == {
    [request_id |-> 1, error |-> "success"],
    [request_id |-> 6],
    [request_id |-> 7, error |-> "invalid parameter"],
    [request_id |-> 9, error |-> "success"],
    [event |-> "idle"] }
Garbage == [json |-> FALSE, msg |-> [event |-> "garbage"]]
MpvChunks == {<< <<[json |-> TRUE, msg |-> m]>>, <<>> >> : m \in MpvMessages}
             \cup { << <<Garbage>>, <<>> >>, << <<Garbage>> >>, << <<>>, <<>> >> }

\* mpvSocket.on('data')
MpvSocketData(chunk) ==
    /\ appPc # "quit"
    /\ mpvConn = "connected"
    /\ Len(chunk) = 1 => mpvLineBuffer = <<>>
    /\ LET pieces == [chunk EXCEPT ![1] = mpvLineBuffer \o chunk[1]]
           lines == SubSeq(pieces, 1, Len(pieces) - 1)
           st == handleMpvLines(lines, [pending |-> pendingRequests,
                                        outcome |-> mpvOutcome,
                                        sent |-> <<>>,
                                        state |-> mpvState,
                                        last |-> lastStatusUpdate,
                                        log |-> statusLog,
                                        pushes |-> pushLog])
       IN /\ mpvLineBuffer' = pieces[Len(pieces)]
          /\ pendingRequests' = st.pending
          /\ mpvOutcome' = st.outcome
          /\ sent' = st.sent
          /\ mpvState' = st.state
          /\ lastStatusUpdate' = st.last
          /\ statusLog' = st.log
          /\ pushLog' = st.pushes
    /\ justStopped' = FALSE
    /\ ret' = "none"
    /\ UNCHANGED <<envVars, lastGstStatusUpdate, now, appPc, mainWindow, gstVars, requestId, mpvTimers,
                   mpvWritten, mpvProcess, mpvAlive, mpvSocket, mpvConn, mpvSocketFile,
                   mpvInitPc, mpvLoadPc>>

\* the setTimeout callback of sendMpvCommand
MpvTimeout(id) ==
    /\ appPc # "quit"
    /\ mpvTimers # <<>>
    /\ id = Head(mpvTimers)
    /\ mpvTimers' = Tail(mpvTimers)
    /\ IF id \in pendingRequests
       THEN /\ pendingRequests' = pendingRequests \ {id}
            /\ mpvOutcome' = [mpvOutcome EXCEPT ![id] = Append(@, "timeout")]
       ELSE UNCHANGED <<pendingRequests, mpvOutcome>>
    /\ sent' = <<>>
    /\ justStopped' = FALSE
    /\ ret' = "none"
    /\ UNCHANGED <<envVars, statusVars, appPc, mainWindow, gstVars, requestId, mpvWritten,
                   mpvProcVars>>

MpvCommands == {"set_property"}

\* the ipcMain handlers mpv-play .. mpv-stop off Linux, up to their await
MpvIpcCommand(command) ==
    /\ platform # "linux"
    /\ mainWindow # "null"
    /\ appPc \in {"created", "running"}
    /\ IF mpvSocket = "null"
       THEN /\ ret' = "resolved: mpv not initialized"
            /\ UNCHANGED mpvCmdVars
       ELSE /\ MpvUserCommands < MaxMpvCommands
            /\ ret' = "pending"
            /\ SetMpvChannel(sendMpvCommand(MpvChannel, command))
            /\ UNCHANGED mpvOutcome
    /\ sent' = <<>>
    /\ justStopped' = FALSE
    /\ UNCHANGED <<envVars, statusVars, appPc, mainWindow, gstVars, mpvProcVars>>

\* ipcMain.handle('mpv-load') off Linux, up to its first await
MpvIpcLoad ==
    /\ platform # "linux"
    /\ mainWindow # "null"
    /\ appPc \in {"created", "running"}
    /\ mpvLoadPc = 0
    /\ IF mpvSocket = "null"
       THEN /\ ret' = "resolved: mpv not initialized"
            /\ UNCHANGED <<mpvCmdVars, mpvLoadPc>>
       ELSE /\ MpvUserCommands < MaxMpvCommands
            /\ ret' = "pending"
            /\ SetMpvChannel(sendMpvCommand(MpvChannel, "set_property"))
            /\ mpvLoadPc' = requestId + 1
            /\ UNCHANGED mpvOutcome
    /\ sent' = <<>>
    /\ justStopped' = FALSE
    /\ UNCHANGED <<envVars, statusVars, appPc, mainWindow, gstVars, mpvProcess, mpvAlive,
                   mpvSocket, mpvConn, mpvSocketFile, mpvInitPc, mpvLineBuffer>>

\* mpv-load resumed once set_property has settled: sendMpvCommand('loadfile')
MpvLoadContinue ==
    /\ appPc # "quit"
    /\ mpvLoadPc # 0
    /\ mpvOutcome[mpvLoadPc] # <<>>
    /\ mpvLoadPc' = 0
    /\ IF mpvSocket = "null"
       THEN /\ ret' = "rejected: Not connected"
            /\ UNCHANGED mpvCmdVars
       ELSE /\ MpvUserCommands < MaxMpvCommands
            /\ ret' = "pending"
            /\ SetMpvChannel(sendMpvCommand(MpvChannel, "loadfile"))
            /\ UNCHANGED mpvOutcome
    /\ sent' = <<>>
    /\ justStopped' = FALSE
    /\ UNCHANGED <<envVars, statusVars, appPc, mainWindow, gstVars, mpvProcess, mpvAlive,
                   mpvSocket, mpvConn, mpvSocketFile, mpvInitPc, mpvLineBuffer>>

\* ----------------------------------------------------------- app lifecycle
\* app.whenReady: the display checks, then createWindow up to the page load
AppReady(displayOk) ==
    /\ appPc = "launch"
    /\ IF displayOk
       THEN /\ mainWindow' = "window"
            /\ appPc' = "created"
       ELSE /\ appPc' = "quit"
            /\ UNCHANGED mainWindow
    /\ sent' = <<>>
    /\ justStopped' = FALSE
    /\ ret' = "none"
    /\ UNCHANGED <<mpvVars, envVars, statusVars, gstVars>>

\* initGst, entered when createWindow has resolved
initGst(helperFound, stdinPiped) ==
    /\ platform = "linux"
    /\ appPc = "created"
    /\ appPc' = "running"
    /\ IF mainWindow = "null"
       THEN /\ sent' = <<>>
            /\ UNCHANGED gstVars
       ELSE \* killGst()
            /\ gstBuffer' = <<>>
            /\ gstReady' = FALSE
            /\ gstStderrTail' = <<>>
            /\ gstLastRect' = NullRect
            /\ gstViewport' = NoViewport
            /\ gstLastVideoInfoKey' = <<>>
            /\ gstLatestFrame' = <<>>
            /\ gstFrameSendScheduled' = FALSE
            /\ gstFrameBuffer' = <<>>
            /\ gstOutcome' = RejectAll(gstOutcome, gstPendingRequests, "stopped")
            /\ gstPendingRequests' = {}
            /\ IF ~helperFound
               THEN /\ sent' = sendToRenderer(mainWindow, "mpv-error",
                                              <<"GStreamer", "helper", "not", "found">>)
                    /\ gstProcess' = "null"
                    /\ gstFrameServer' = "null"
                    /\ gstFrameSocketPath' = "null"
                    /\ frameSocketFile' = IF gstFrameSocketPath # "null" THEN FALSE
                                          ELSE frameSocketFile
                    /\ UNCHANGED <<gstStdin, gstAlive>>
               ELSE \* startFrameServer() on the stopped server, then spawn
                    /\ sent' = <<>>
                    /\ gstFrameSocketPath' = "path"
                    /\ gstFrameServer' = "server"
                    /\ frameSocketFile' = TRUE
                    /\ gstProcess' = "proc"
                    /\ gstStdin' = stdinPiped
                    /\ gstAlive' = TRUE
            /\ UNCHANGED <<gstRequestId, gstTimers, gstWritten, gstStderrCount, frameEnvVars>>
    /\ justStopped' = FALSE
    /\ ret' = "none"
    /\ UNCHANGED <<mpvVars, envVars, statusVars, mainWindow>>

\* mainWindow.on('closed')
WindowClosed ==
    /\ appPc = "running"
    /\ mainWindow # "null"
    /\ mainWindow' = "null"
    /\ appPc' = "closed"
    /\ killMpv
    /\ killGst
    /\ sent' = <<>>
    /\ justStopped' = TRUE
    /\ ret' = "none"
    /\ UNCHANGED <<mpvCmdVars, mpvAlive, mpvInitPc, mpvLineBuffer, mpvLoadPc,
                   envVars, statusVars, gstStdin, gstAlive, gstRequestId, gstTimers,
                   gstWritten, gstStderrCount, frameEnvVars>>

\* app.on('window-all-closed')
WindowAllClosed ==
    /\ appPc = "closed"
    /\ killMpv
    /\ killGst
    /\ appPc' = IF platform # "darwin" THEN "quit" ELSE "idle"
    /\ sent' = <<>>
    /\ justStopped' = TRUE
    /\ ret' = "none"
    /\ UNCHANGED <<mpvCmdVars, mpvAlive, mpvInitPc, mpvLineBuffer, mpvLoadPc,
                   envVars, statusVars, mainWindow, gstStdin, gstAlive, gstRequestId,
                   gstTimers, gstWritten, gstStderrCount, frameEnvVars>>

\* app.on('activate'): createWindow again, no backend is started
Activate ==
    /\ appPc = "idle"
    /\ mainWindow' = "window"
    /\ appPc' = "running"
    /\ sent' = <<>>
    /\ justStopped' = FALSE
    /\ ret' = "none"
    /\ UNCHANGED <<envVars, statusVars, gstVars, mpvVars>>

\* ipcMain.handle('mpv-set-viewport'); sendGstRect returns at once under
\* appsink and without a helper process
Viewports == { [x |-> 0, y |-> 0, width |-> 640, height |-> 360, hidden |-> FALSE]
}
\* ------------------------------------------------------ the video rectangle
\* Viewport coordinates and scale factors are counted in halves, so that
\* Math.round has something to round.
\* Math.round(h / 2)
Round2(h) == (h + 1) \div 2
HiddenRect == [x |-> -20000, y |-> -20000, width |-> 1, height |-> 1]

\* the rectangle of sendGstRect in logical pixels
logicalRect(viewport, bounds) ==
    IF viewport = NoViewport
    THEN [x |-> 0, y |-> 0, width |-> bounds.width, height |-> bounds.height]
    ELSE IF viewport.hidden \/ viewport.width <= 0 \/ viewport.height <= 0
    THEN HiddenRect
    ELSE LET x == Max(0, Round2(viewport.x))
             y == Max(0, Round2(viewport.y))
             width == Max(1, Round2(viewport.width))
             height == Max(1, Round2(viewport.height))
             maxWidth == Max(1, bounds.width - x)
             maxHeight == Max(1, bounds.height - y)
         IN [x |-> x, y |-> y, width |-> Min(width, maxWidth),
             height |-> Min(height, maxHeight)]

\* display?.scaleFactor || 1, in halves
scaleOf(scaleFactor2) == IF scaleFactor2 = 0 THEN 2 ELSE scaleFactor2
\* the rectangle in device pixels, with the scale it was computed for
deviceRect(r, scale2) ==
    [x |-> Round2(r.x * scale2), y |-> Round2(r.y * scale2),
     width |-> Max(1, Round2(r.width * scale2)),
     height |-> Max(1, Round2(r.height * scale2)), scale |-> scale2]

\* content bounds of the window and scale factors of the display
RectBounds == {[width |-> 400, height |-> 300], [width |-> 1280, height |-> 720]}
Scales2 == {0, 2, 3, 4}

\* sendGstRect behind its two guards: compute, compare with the last
\* rectangle sent, and issue the rect command
sendGstRectIssue(viewport) ==
    \E bounds \in RectBounds, scaleFactor2 \in Scales2 :
        LET rect == deviceRect(logicalRect(viewport, bounds), scaleOf(scaleFactor2)) IN
        IF gstLastRect = rect
        THEN UNCHANGED <<gstLastRect, gstCmdVars>>
        ELSE /\ gstLastRect' = rect
             /\ IF ~gstStdin
                THEN UNCHANGED gstCmdVars
                ELSE /\ gstRequestId < CommandBudget
                     /\ LET id == gstRequestId + 1 IN
                        /\ gstRequestId' = id
                        /\ gstPendingRequests' = gstPendingRequests \cup {id}
                        /\ gstWritten' = write(gstWritten, <<"rect", IdToString(id), rect>>)
                        /\ gstTimers' = Append(gstTimers, id)
                        /\ UNCHANGED gstOutcome

\* variant: the appsink configuration is not tested
sendGstRectNoAppsinkTest(viewport) ==
    IF mainWindow = "null" \/ gstProcess = "null"
    THEN UNCHANGED <<gstLastRect, gstCmdVars>>
    ELSE sendGstRectIssue(viewport)
\* sendGstRect
sendGstRect(viewport) ==
    IF gstUseAppsink \/ mainWindow = "null" \/ gstProcess = "null"
    THEN UNCHANGED <<gstLastRect, gstCmdVars>>
    ELSE sendGstRectIssue(viewport)

\* ipcMain.handle('mpv-set-viewport')
SetViewport(rect) ==
    /\ appPc \in {"created", "running"}
    /\ mainWindow # "null"
    /\ gstViewport' = rect
    /\ IF platform = "linux"
       THEN sendGstRect(rect)
       ELSE UNCHANGED <<gstLastRect, gstCmdVars>>
    /\ ret' = "resolved: success"
    /\ sent' = <<>>
    /\ justStopped' = FALSE
    /\ UNCHANGED <<mpvVars, envVars, statusVars, appPc, mainWindow, gstProcess, gstStdin,
                   gstAlive, gstBuffer, gstReady, gstStderrTail, gstStderrCount,
                   gstFrameVars>>

Next ==
    \/ \E ok \in BOOLEAN : AppReady(ok)
    \/ \E found \in BOOLEAN, piped \in BOOLEAN : initGst(found, piped)
    \/ WindowClosed
    \/ WindowAllClosed
    \/ Activate
    \/ \E rect \in Viewports : SetViewport(rect)
    \/ \E c \in GstCommands, wt \in BOOLEAN : sendGstCommand(c, wt)
    \/ \E id \in GstIds : GstTimeout(id)
    \/ \E chunk \in GstChunks : GstStdoutData(chunk)
    \/ \E chunk \in StderrChunks(gstStderrCount) : GstStderrData(chunk)
    \/ GstProcessError
    \/ \E e \in ExitCodes : GstProcessExit(e)
    \/ FrameConnect
    \/ \E n \in chunkSizes : FrameSocketData(n)
    \/ FrameSendCallback
    \/ \E found \in BOOLEAN : initMpv(found)
    \/ MpvCreatesSocket
    \/ \E timedOut \in BOOLEAN : MpvSocketWait(timedOut)
    \/ MpvSocketConnect
    \/ MpvSocketError
    \/ MpvProcessError
    \/ MpvProcessExit
    \/ \E chunk \in MpvChunks : MpvSocketData(chunk)
    \/ \E id \in MpvIds : MpvTimeout(id)
    \/ \E c \in MpvCommands : MpvIpcCommand(c)
    \/ MpvIpcLoad
    \/ MpvLoadContinue

Spec == Init /\ [][Next]_vars

\* The frame transport on its own: the state in which the helper has just
\* connected to the frame server, for every stream and every chunking.
InitFrame ==
    /\ HelperInit
    /\ StatusInit
    /\ RectInit
    /\ UiInit
    /\ platform = "linux"
    /\ scenario = "frames"
    /\ appPc = "running"
    /\ mainWindow = "window"
    /\ justStopped = FALSE
    /\ sent = <<>>
    /\ ret = "none"
    /\ gstProcess = "proc"
    /\ gstStdin = TRUE
    /\ gstAlive = TRUE
    /\ gstBuffer = <<>>
    /\ gstReady = FALSE
    /\ gstRequestId = 0
    /\ gstPendingRequests = {}
    /\ gstTimers = <<>>
    /\ gstOutcome = [i \in GstIds |-> <<>>]
    /\ gstWritten = <<>>
    /\ gstStderrTail = <<>>
    /\ gstStderrCount = 0
    /\ gstLastRect = NullRect
    /\ gstViewport = NoViewport
    /\ gstFrameServer = "server"
    /\ gstFrameSocketPath = "path"
    /\ frameSocketFile = TRUE
    /\ gstFrameBuffer = <<>>
    /\ gstLastVideoInfoKey = <<>>
    /\ gstFrameSendScheduled = FALSE
    /\ gstLatestFrame = <<>>
    /\ frameImmediates = 0
    /\ frameConn = TRUE
    /\ frameInput \in FrameStreams
    /\ frameWire = StreamBytes(frameInput)
    /\ chunkSizes = FrameChunkSizes
    /\ framesParsed = <<>>
    /\ decodePc = "idle"
    /\ mpvProcess = "null"
    /\ mpvAlive = FALSE
    /\ mpvSocket = "null"
    /\ mpvConn = "none"
    /\ mpvSocketFile = FALSE
    /\ mpvInitPc = "idle"
    /\ mpvLineBuffer = <<>>
    /\ mpvLoadPc = 0
    /\ requestId = 0
    /\ pendingRequests = {}
    /\ mpvTimers = <<>>
    /\ mpvOutcome = [i \in MpvIds |-> <<>>]
    /\ mpvWritten = <<>>
NextFrame ==
    \/ \E n \in chunkSizes : FrameSocketData(n)
    \/ FrameSendCallback
SpecFrame == InitFrame /\ [][NextFrame]_vars

\* The decode loop one iteration at a time.  The loop is synchronous code:
\* nothing else runs before it returns.
NextDecode ==
    \/ \E n \in chunkSizes : DecodeChunk(n)
    \/ DecodeIteration
    \/ FrameSendCallback
\* Weak fairness of DecodeIteration, which is enabled exactly when decodePc is
\* "loop": the loop is not suspended forever.
SpecDecode ==
    /\ InitFrame
    /\ [][NextDecode]_vars
    /\ ([]<>(decodePc # "loop") \/ []<><<DecodeIteration>>_vars)

\* ------------------------------------------------ status updates over time
\* The state of the main process once initGst has spawned the helper.
GstRunning ==
    /\ platform = "linux"
    /\ scenario = "commands"
    /\ appPc = "running"
    /\ mainWindow = "window"
    /\ justStopped = FALSE
    /\ sent = <<>>
    /\ ret = "none"
    /\ gstProcess = "proc"
    /\ gstStdin = TRUE
    /\ gstAlive = TRUE
    /\ gstBuffer = <<>>
    /\ gstReady = FALSE
    /\ gstRequestId = 0
    /\ gstPendingRequests = {}
    /\ gstTimers = <<>>
    /\ gstOutcome = [i \in GstIds |-> <<>>]
    /\ gstWritten = <<>>
    /\ gstStderrTail = <<>>
    /\ gstStderrCount = 0
    /\ gstLastRect = NullRect
    /\ gstViewport = NoViewport
    /\ gstFrameServer = "server"
    /\ gstFrameSocketPath = "path"
    /\ frameSocketFile = TRUE
    /\ gstFrameBuffer = <<>>
    /\ gstLastVideoInfoKey = <<>>
    /\ gstFrameSendScheduled = FALSE
    /\ gstLatestFrame = <<>>
    /\ frameImmediates = 0
    /\ frameConn = FALSE
    /\ frameInput = NoStream
    /\ frameWire = <<>>
    /\ chunkSizes = {21}
    /\ framesParsed = <<>>
    /\ decodePc = "idle"
    /\ mpvProcess = "null"
    /\ mpvAlive = FALSE
    /\ mpvSocket = "null"
    /\ mpvConn = "none"
    /\ mpvSocketFile = FALSE
    /\ mpvInitPc = "idle"
    /\ mpvLineBuffer = <<>>
    /\ mpvLoadPc = 0
    /\ requestId = 0
    /\ pendingRequests = {}
    /\ mpvTimers = <<>>
    /\ mpvOutcome = [i \in MpvIds |-> <<>>]
    /\ mpvWritten = <<>>

\* The state of the main process once initMpv has connected to mpv and asked
\* it to observe the five properties.
MpvRunning ==
    /\ platform = "win32"
    /\ scenario = "commands"
    /\ appPc = "running"
    /\ mainWindow = "window"
    /\ justStopped = FALSE
    /\ sent = sendToRenderer("window", "mpv-ready", TRUE)
    /\ ret = "none"
    /\ gstProcess = "null"
    /\ gstStdin = FALSE
    /\ gstAlive = FALSE
    /\ gstBuffer = <<>>
    /\ gstReady = FALSE
    /\ gstRequestId = 0
    /\ gstPendingRequests = {}
    /\ gstTimers = <<>>
    /\ gstOutcome = [i \in GstIds |-> <<>>]
    /\ gstWritten = <<>>
    /\ gstStderrTail = <<>>
    /\ gstStderrCount = 0
    /\ gstLastRect = NullRect
    /\ gstViewport = NoViewport
    /\ gstFrameServer = "null"
    /\ gstFrameSocketPath = "null"
    /\ frameSocketFile = FALSE
    /\ gstFrameBuffer = <<>>
    /\ gstLastVideoInfoKey = <<>>
    /\ gstFrameSendScheduled = FALSE
    /\ gstLatestFrame = <<>>
    /\ frameImmediates = 0
    /\ frameConn = FALSE
    /\ frameInput = NoStream
    /\ frameWire = <<>>
    /\ chunkSizes = {21}
    /\ framesParsed = <<>>
    /\ decodePc = "idle"
    /\ mpvProcess = "proc"
    /\ mpvAlive = TRUE
    /\ mpvSocket = "socket"
    /\ mpvConn = "connected"
    /\ mpvSocketFile = FALSE
    /\ mpvInitPc = "done"
    /\ mpvLineBuffer = <<>>
    /\ mpvLoadPc = 0
    /\ requestId = Len(ObservedProperties)
    /\ pendingRequests = 1..Len(ObservedProperties)
    /\ mpvTimers = [i \in 1..Len(ObservedProperties) |-> i]
    /\ mpvOutcome = [i \in MpvIds |-> <<>>]
    /\ mpvWritten = [i \in 1..Len(ObservedProperties) |->
                        [command |-> "observe_property", request_id |-> i]]

\* Date.now() advances between two callbacks
TickSteps == {50, 51}
Tick(d) ==
    /\ now + d <= StartTime + MaxClock
    /\ now' = now + d
    /\ UNCHANGED <<appVars, gstVars, mpvVars, envVars, mpvState, lastStatusUpdate,
                   lastGstStatusUpdate, statusLog, pushLog>>

\* an ipcMain handler of the player on Linux: mpv-toggle-mute flips the mute
\* flag first (mutes), then every handler calls sendGstCommand(command, args)
gstHandler(command, args, mutes, writeThrows) ==
    /\ platform = "linux"
    /\ mainWindow # "null"
    /\ appPc \in {"created", "running"}
    /\ IF mutes
       THEN /\ mpvState' = [mpvState EXCEPT !.muted = ~@]
            /\ statusLog' = Append(statusLog, [kind |-> "mute"])
       ELSE UNCHANGED <<mpvState, statusLog>>
    /\ IF gstProcess = "null" \/ ~gstStdin
       THEN /\ ret' = "resolved: GStreamer helper not running"
            /\ UNCHANGED gstCmdVars
       ELSE /\ gstRequestId < CommandBudget
            /\ LET id == gstRequestId + 1 IN
               /\ gstRequestId' = id
               /\ ret' = "pending"
               /\ IF writeThrows
                  THEN /\ gstPendingRequests' = gstPendingRequests \ {id}
                       /\ gstOutcome' = [gstOutcome EXCEPT ![id] = Append(@, "writefail")]
                       /\ UNCHANGED <<gstTimers, gstWritten>>
                  ELSE /\ gstPendingRequests' = gstPendingRequests \cup {id}
                       /\ gstWritten' = write(gstWritten,
                                               <<command, IdToString(id)>> \o args)
                       /\ gstTimers' = Append(gstTimers, id)
                       /\ UNCHANGED gstOutcome
    /\ sent' = <<>>
    /\ justStopped' = FALSE
    /\ UNCHANGED <<mpvVars, envVars, lastStatusUpdate, lastGstStatusUpdate, now, pushLog,
                   appPc, mainWindow, gstProcVars, gstFrameVars>>

\* ipcMain.handle('mpv-toggle-mute') on Linux: the mute flag is flipped
\* before the command is written
GstToggleMute(writeThrows) ==
    gstHandler("mute", <<IF mpvState.muted THEN "0" ELSE "1">>, TRUE, writeThrows)

\* what the helper and mpv report while a stream plays
StatusLines == {
    emit_status(TRUE, 45, FALSE, 12340, 600000, FALSE),
    emit_status(FALSE, 100, TRUE, 0, 0, TRUE),
    <<"status", <<"position", "=", "1", ".", "5", "0", "0">>>> }
StatusChunks == {<<l, <<>>>> : l \in StatusLines}
                \cup {<<emit_status(TRUE, 45, FALSE, 12340, 600000, FALSE),
                        emit_status(TRUE, 45, FALSE, 12590, 600000, FALSE), <<>>>>}
PropertyMessages == <<
    [event |-> "property-change", name |-> "pause", data |-> FALSE],
    [event |-> "property-change", name |-> "volume", data |-> 45],
    [event |-> "property-change", name |-> "time-pos", data |-> 12340],
    [event |-> "property-change", name |-> "duration"],
    [event |-> "property-change", name |-> "mute", data |-> TRUE, request_id |-> 3] >>
PropertyChunk(i) == << <<[json |-> TRUE, msg |-> PropertyMessages[i]]>>, <<>> >>

InitStatus ==
    /\ HelperInit
    /\ StatusInit
    /\ RectInit
    /\ UiInit
    /\ GstRunning \/ MpvRunning
NextStatus ==
    \/ \E d \in TickSteps : Tick(d)
    \/ Len(statusLog) < MaxStatus /\ \E chunk \in StatusChunks : GstStdoutData(chunk)
    \/ Len(statusLog) < MaxStatus /\ \E i \in DOMAIN PropertyMessages : MpvSocketData(PropertyChunk(i))
    \/ Len(statusLog) < MaxStatus /\ \E wt \in BOOLEAN : GstToggleMute(wt)
SpecStatus == InitStatus /\ [][NextStatus]_vars

\* ------------------------------------------------ lines of every kind
\* A running backend with requests pending, and its output: replies, status
\* lines and events, side-channel lines, malformed lines, and a chunk that
\* has a reply behind lines of the other kinds.
MixedChunk ==
    << <<"error", "boom">>, <<"result", "x", "ok">>,
       emit_status(TRUE, 45, FALSE, 12340, 600000, FALSE), <<"result", "1", "ok">>, <<>> >>
LineChunks == GstChunks \cup StatusChunks \cup {MixedChunk}
NextLines ==
    \/ \E c \in GstCommands, wt \in BOOLEAN : sendGstCommand(c, wt)
    \/ \E c \in MpvCommands : MpvIpcCommand(c)
    \/ Len(statusLog) < MaxStatus /\ \E chunk \in LineChunks : GstStdoutData(chunk)
    \/ \E chunk \in MpvChunks : MpvSocketData(chunk)
    \/ Len(statusLog) < MaxStatus
       /\ \E i \in DOMAIN PropertyMessages : MpvSocketData(PropertyChunk(i))
SpecLines == InitStatus /\ [][NextLines]_vars


\* ------------------------------------------------- one status line merged
\* what the helper can report: emit_status prints the pipeline flags, the
\* volume in percent and the position and duration in seconds
HelperStatuses ==
    [playing : BOOLEAN, volume : {0, 45, 100}, muted : BOOLEAN,
     position : {0, 5, 12340}, duration : {0, 600000}, buffering : BOOLEAN]
HelperLine(h) ==
    emit_status(h.playing, h.volume, h.muted, h.position, h.duration, h.buffering)
\* parts of the protocol with the value each one states (flags as 0 and 1),
\* an unknown key, and the empty part two adjacent spaces leave
StatusParts == {
    [text |-> <<"playing", "=", "1">>, key |-> "playing", value |-> 1],
    [text |-> <<"playing", "=", "0">>, key |-> "playing", value |-> 0],
    [text |-> <<"volume", "=", "4", "5">>, key |-> "volume", value |-> 45],
    [text |-> <<"muted", "=", "1">>, key |-> "muted", value |-> 1],
    [text |-> <<"position", "=", "1", "2", ".", "3", "4", "0">>, key |-> "position",
     value |-> 12340],
    [text |-> <<"duration", "=", "6", "0", "0", ".", "0", "0", "0">>, key |-> "duration",
     value |-> 600000],
    [text |-> <<"buffering", "=", "1">>, key |-> "buffering", value |-> 1],
    [text |-> <<>>, key |-> "", value |-> 0] }
PartialCases ==
    {<<p>> : p \in StatusParts}
    \cup {<<pq[1], pq[2]>> : pq \in {x \in StatusParts \X StatusParts : x[1].key # x[2].key}}
CaseLine(case) == <<"status">> \o [i \in 1..Len(case) |-> case[i].text]
ExampleLine ==
    <<"status", <<"playing", "=", "1">>, <<"volume", "=", "4", "5">>,
      <<"muted", "=", "0">>, <<"position", "=", "1", "2", ".", "3", "4", "0">>,
      <<"duration", "=", "6", "0", "0", ".", "0", "0", "0">>, <<"buffering", "=", "0">>>>
MergeLines ==
    {HelperLine(h) : h \in HelperStatuses} \cup {CaseLine(c) : c \in PartialCases}
    \cup {ExampleLine}
\* playback states an earlier status line can have left
PreviousStates == {
    [playing |-> FALSE, volume |-> 100, muted |-> FALSE, position |-> 0, duration |-> 0],
    [playing |-> TRUE, volume |-> 45, muted |-> TRUE, position |-> 12340,
     duration |-> 600000] }

InitMerge ==
    /\ HelperInit
    /\ RectInit
    /\ UiInit
    /\ GstRunning
    /\ mpvState \in PreviousStates
    /\ lastStatusUpdate = 0
    /\ lastGstStatusUpdate \in {0, StartTime}
    /\ now = StartTime
    /\ statusLog = <<>>
    /\ pushLog = <<>>
NextMerge ==
    statusLog = <<>> /\ \E line \in MergeLines : GstStdoutData(<<line, <<>>>>)
SpecMerge == InitMerge /\ [][NextMerge]_vars

\* ------------------------------------------- one property change merged
\* property-change events over the range of each observed property (times in
\* thousandths of a second), and events of properties that are not observed
PropertyCases == <<
    [event |-> "property-change", name |-> "pause", data |-> TRUE],
    [event |-> "property-change", name |-> "pause", data |-> FALSE],
    [event |-> "property-change", name |-> "volume", data |-> 0],
    [event |-> "property-change", name |-> "volume", data |-> 1],
    [event |-> "property-change", name |-> "volume", data |-> 45],
    [event |-> "property-change", name |-> "volume", data |-> 100],
    [event |-> "property-change", name |-> "mute", data |-> TRUE],
    [event |-> "property-change", name |-> "mute", data |-> FALSE],
    [event |-> "property-change", name |-> "time-pos", data |-> 0],
    [event |-> "property-change", name |-> "time-pos", data |-> 12340],
    [event |-> "property-change", name |-> "duration", data |-> 0],
    [event |-> "property-change", name |-> "duration", data |-> 600000],
    [event |-> "property-change", name |-> "speed", data |-> 2],
    [event |-> "property-change", name |-> "idle-active", data |-> TRUE] >>
PropertyStates ==
    PreviousStates
    \cup {[playing |-> TRUE, volume |-> 0, muted |-> FALSE, position |-> 0,
            duration |-> 600000],
           [playing |-> FALSE, volume |-> 45, muted |-> TRUE, position |-> 5,
            duration |-> 0]}
InitProperty ==
    /\ HelperInit
    /\ RectInit
    /\ UiInit
    /\ MpvRunning
    /\ mpvState \in PropertyStates
    /\ lastStatusUpdate \in {0, StartTime}
    /\ lastGstStatusUpdate = 0
    /\ now = StartTime
    /\ statusLog = <<>>
    /\ pushLog = <<>>
NextProperty ==
    statusLog = <<>> /\ \E i \in DOMAIN PropertyCases :
        MpvSocketData(<< <<[json |-> TRUE, msg |-> PropertyCases[i]]>>, <<>> >>)
SpecProperty == InitProperty /\ [][NextProperty]_vars

\* ------------------------------------------------------ the player facade
\* The handlers of the player from the launch of the application on, with the
\* status updates of the backend.
\* volumes and the seek time the renderer passes
UiVolumes == {45, 250}
GstOps ==
    {[command |-> c, args |-> <<>>] : c \in {"play", "status"}}
    \cup {[command |-> "volume", args |-> FormatInt(v)] : v \in UiVolumes}
    \cup {[command |-> "seek", args |-> FormatInt(12)]}
    \cup {[command |-> "load", args |-> <<"url">>]}
\* the handlers mpv-load (with its URL resolved), mpv-play, mpv-pause,
\* mpv-toggle-pause, mpv-volume, mpv-seek, mpv-stop and mpv-get-status on Linux
GstIpc(op, writeThrows) ==
    gstHandler(op.command, IF op.args = <<>> THEN <<>> ELSE <<op.args>>, FALSE, writeThrows)
\* ipcMain.handle('mpv-get-status') off Linux
MpvGetStatus ==
    /\ platform # "linux"
    /\ mainWindow # "null"
    /\ appPc \in {"created", "running"}
    /\ ret # "resolved: status"
    /\ ret' = "resolved: status"
    /\ sent' = <<>>
    /\ justStopped' = FALSE
    /\ UNCHANGED <<envVars, statusVars, appPc, mainWindow, gstVars, mpvVars>>
MpvFacadeCommands == {"set_property", "seek"}
\* mpv answers a command of the renderer
FacadeReply(id) == << <<[json |-> TRUE, msg |-> [request_id |-> id]]>>, <<>> >>

\* the volume command of the helper: the percentage it sets, as emit_status
\* prints it
helperVolume(arg) ==
    LET v == parseFloat(arg)
        milli == IF v.nan THEN 0 ELSE v.value
        clamped == IF milli < 0 THEN 0 ELSE IF milli > 1000000 THEN 1000000 ELSE milli
    IN (clamped + 500) \div 1000
\* the helper answers the command it has read: a volume command with its
\* result and a status line, any other command with its result
HelperAnswer(w) ==
    IF w[1] = "volume" /\ Len(w) >= 3
    THEN << <<"result", w[2], "ok">>,
            emit_status(FALSE, helperVolume(w[3]), FALSE, 0, 0, FALSE), <<>> >>
    ELSE << <<"result", w[2], "ok">>, <<>> >>
HelperAnswers(k) ==
    /\ k \in 1..Len(gstWritten)
    /\ IsDigits(gstWritten[k][2])
    /\ ParseInt(gstWritten[k][2]) \in gstPendingRequests
    /\ GstStdoutData(HelperAnswer(gstWritten[k]))

InitFacade == Init /\ scenario = "commands" /\ platform \in {"linux", "win32"}
NextFacade ==
    \/ \E ok \in BOOLEAN : AppReady(ok)
    \/ \E found \in BOOLEAN, piped \in BOOLEAN : initGst(found, piped)
    \/ \E found \in BOOLEAN : initMpv(found)
    \/ MpvCreatesSocket
    \/ \E timedOut \in BOOLEAN : MpvSocketWait(timedOut)
    \/ MpvSocketConnect
    \/ \E op \in GstOps : GstIpc(op, FALSE)
    \/ Len(statusLog) < MaxStatus /\ \E wt \in BOOLEAN : GstToggleMute(wt)
    \/ \E c \in MpvFacadeCommands : MpvIpcCommand(c)
    \/ MpvIpcLoad
    \/ MpvLoadContinue
    \/ MpvGetStatus
    \/ \E rect \in Viewports : SetViewport(rect)
    \/ Len(statusLog) < MaxStatus /\ \E k \in GstIds : HelperAnswers(k)
    \/ Len(statusLog) < MaxStatus
       /\ \E i \in DOMAIN PropertyMessages : MpvSocketData(PropertyChunk(i))
    \/ \E id \in MpvUserIds : MpvSocketData(FacadeReply(id))
SpecFacade == InitFacade /\ [][NextFacade]_vars

\* ----------------------------------------------------------- the renderer
\* A URL is a sequence of tokens: a scheme, "//", a host, then "/" and "."
\* separated words, "?" and a query, "#" and a fragment.
Schemes == {"http:", "rtsp:"}
Hosts == {"host", "HOST"}
AlnumWords == {"live", "vod", "1234", "99", "ts", "mp4", "m3u8", "m3u", "M3U8"}
\* String.prototype.toLowerCase on a word
toLowerCase(w) ==
    IF w = "HOST" THEN "host" ELSE IF w = "M3U8" THEN "m3u8" ELSE w

\* the tokens before the first one of stops
RECURSIVE Before(_, _)
Before(u, stops) ==
    IF u = <<>> \/ Head(u) \in stops THEN <<>> ELSE <<Head(u)>> \o Before(Tail(u), stops)

\* new URL(u): throws unless u is absolute; the host is lower-cased and an
\* empty path reads as "/"
parseUrl(u) ==
    IF Len(u) >= 3 /\ u[1] \in Schemes /\ u[2] = "//" /\ u[3] \in Hosts
       /\ (Len(u) = 3 \/ u[4] \in {"/", "?", "#"})
    THEN LET rest == SubSeq(u, 4, Len(u))
             path == Before(rest, {"?", "#"})
             afterPath == SubSeq(rest, Len(path) + 1, Len(rest))
             search == Before(afterPath, {"#"})
         IN [ok |-> TRUE, scheme |-> u[1], host |-> toLowerCase(u[3]),
             pathname |-> IF path = <<>> THEN <<"/">> ELSE path,
             search |-> search,
             hash |-> SubSeq(afterPath, Len(search) + 1, Len(afterPath))]
    ELSE [ok |-> FALSE, scheme |-> "", host |-> "", pathname |-> <<>>,
          search |-> <<>>, hash |-> <<>>]
\* URL.prototype.toString
urlToString(p) == <<p.scheme, "//", p.host>> \o p.pathname \o p.search \o p.hash

\* pathname.match(/\.([a-z0-9]+)$/i)
extMatch(pathname) ==
    Len(pathname) >= 2 /\ pathname[Len(pathname) - 1] = "."
    /\ pathname[Len(pathname)] \in AlnumWords

\* generateUrl of getStreamFallbacks
generateUrl(u, basePathname, ext) ==
    urlToString([parseUrl(u) EXCEPT !.pathname = basePathname \o <<".", ext>>])

\* variant: the live order is used for every stream
getStreamFallbacksLiveOnly(u, isLive) ==
    LET urlObj == parseUrl(u)
        pathname == urlObj.pathname
    IN IF ~urlObj.ok \/ ~extMatch(pathname) THEN <<>>
       ELSE LET currentExt == toLowerCase(pathname[Len(pathname)])
                basePathname == SubSeq(pathname, 1, Len(pathname) - 2)
            IN (IF currentExt # "m3u8" THEN <<generateUrl(u, basePathname, "m3u8")>>
                ELSE <<>>)
               \o (IF currentExt # "m3u" THEN <<generateUrl(u, basePathname, "m3u")>>
                   ELSE <<>>)
\* getStreamFallbacks
getStreamFallbacks(u, isLive) ==
    LET urlObj == parseUrl(u)
        pathname == urlObj.pathname
    IN IF ~urlObj.ok \/ ~extMatch(pathname) THEN <<>>
       ELSE LET currentExt == toLowerCase(pathname[Len(pathname)])
                basePathname == SubSeq(pathname, 1, Len(pathname) - 2)
                second == IF isLive THEN "m3u" ELSE "ts"
            IN (IF currentExt # "m3u8" THEN <<generateUrl(u, basePathname, "m3u8")>>
                ELSE <<>>)
               \o (IF currentExt # second THEN <<generateUrl(u, basePathname, second)>>
                   ELSE <<>>)

\* stream URLs of a playlist
Urls == {
    <<"http:", "//", "host", "/", "live", "/", "1234", ".", "ts">>,
    <<"http:", "//", "host", "/", "vod", "/", "99", ".", "mp4">>,
    <<"http:", "//", "host", "/", "live", "/", "1234", ".", "m3u8", "?", "token=abc.ts">>,
    <<"rtsp:", "//", "HOST", "/", "live", "/", "1234", ".", "M3U8">>,
    <<"http:", "//", "host", "/", "vod", "/", "99", ".", "ts", "#", "t=10">>,
    <<"http:", "//", "host", "/", "live", "/", "1234", ".", "m3u">>,
    <<"http:", "//", "host", "/", "live", "/", "1234">>,
    <<"http:", "//", "host", "?", "token=abc.ts">>,
    <<"http:", "//", "host", "/", "live", ".", "ts", "/">>,
    <<"http:", "//", "host", "/", "live", "/", "1234", ".", "t-s">>,
    <<"live", "/", "1234", ".", "ts">>,
    <<>> }

\* what a call of mpv.load settles with: the handler's outcome object, or a
\* rejection when the promise the handler returned rejects
LoadOutcomes == {"success", "error: load failed", "error: timeout", "rejected"}
IsError(outcome) == outcome \in {"error: load failed", "error: timeout"}

\* window.mpv.onReady
OnReady(ready) ==
    /\ uiReady # ready
    /\ uiReady' = ready
    /\ UNCHANGED <<uiCalls, currentChannel, uiPlaying, uiError, uiLoads>>
    /\ UNCHANGED <<appVars, gstVars, mpvVars, helperVars, rectVars, statusVars>>

\* window.mpv.onStatus
OnStatus(playing) ==
    /\ uiPlaying # playing
    /\ uiPlaying' = playing
    /\ UNCHANGED <<uiReady, uiCalls, currentChannel, uiError, uiLoads>>
    /\ UNCHANGED <<appVars, gstVars, mpvVars, helperVars, rectVars, statusVars>>

\* handleLoadStream (live) and handlePlayVod, up to the first await
handleLoadStream(url, isLive) ==
    /\ Len(uiCalls) < MaxLoads
    /\ LET c == Len(uiCalls) + 1
           call == [primary |-> url, isLive |-> isLive, pc |-> "primary", idx |-> 0,
                    candidates |-> <<>>, firstError |-> "none"]
       IN IF ~uiReady
          THEN /\ uiError' = "Player not ready yet"
               /\ uiCalls' = Append(uiCalls, [call EXCEPT !.pc = "notready"])
               /\ UNCHANGED uiLoads
          ELSE /\ uiError' = "null"
               /\ uiCalls' = Append(uiCalls, call)
               /\ uiLoads' = Append(uiLoads, [call |-> c, url |-> url])
    /\ UNCHANGED <<uiReady, currentChannel, uiPlaying>>
    /\ UNCHANGED <<appVars, gstVars, mpvVars, helperVars, rectVars, statusVars>>

\* a call of mpv.load settles and the call that awaits it runs on: the rest
\* of tryLoadWithFallbacks and of handleLoadStream
LoadSettled(c, outcome) ==
    /\ c \in 1..Len(uiCalls)
    /\ uiCalls[c].pc \in {"primary", "fallback"}
    /\ LET call == uiCalls[c]
           tried == IF call.idx = 0 THEN call.primary ELSE call.candidates[call.idx]
           fallbacks == IF call.idx = 0 THEN getStreamFallbacks(call.primary, call.isLive)
                        ELSE call.candidates
           firstError == IF call.idx = 0 THEN outcome ELSE call.firstError
       IN IF outcome = "rejected"
          THEN /\ uiCalls' = [uiCalls EXCEPT ![c].pc = "thrown"]
               /\ UNCHANGED <<currentChannel, uiPlaying, uiError, uiLoads>>
          ELSE IF ~IsError(outcome)
          THEN /\ uiCalls' = [uiCalls EXCEPT ![c].pc = "loaded"]
               /\ currentChannel' = tried
               /\ uiPlaying' = TRUE
               /\ UNCHANGED <<uiError, uiLoads>>
          ELSE IF call.idx < Len(fallbacks)
          THEN /\ uiCalls' = [uiCalls EXCEPT ![c].pc = "fallback",
                                             ![c].idx = call.idx + 1,
                                             ![c].candidates = fallbacks,
                                             ![c].firstError = firstError]
               /\ uiLoads' = Append(uiLoads, [call |-> c, url |-> fallbacks[call.idx + 1]])
               /\ UNCHANGED <<currentChannel, uiPlaying, uiError>>
          ELSE /\ uiCalls' = [uiCalls EXCEPT ![c].pc = "failed",
                                             ![c].candidates = fallbacks,
                                             ![c].firstError = firstError]
               /\ uiError' = firstError
               /\ UNCHANGED <<currentChannel, uiPlaying, uiLoads>>
    /\ UNCHANGED uiReady
    /\ UNCHANGED <<appVars, gstVars, mpvVars, helperVars, rectVars, statusVars>>

\* the renderer beside a main process that runs the helper
InitRenderer ==
    /\ HelperInit
    /\ StatusInit
    /\ RectInit
    /\ UiInit
    /\ GstRunning
NextRenderer ==
    \/ \E ready \in BOOLEAN : OnReady(ready)
    \/ \E playing \in BOOLEAN : OnStatus(playing)
    \/ \E url \in Urls, isLive \in BOOLEAN : handleLoadStream(url, isLive)
    \/ \E c \in 1..MaxLoads, outcome \in LoadOutcomes : LoadSettled(c, outcome)
SpecRenderer == InitRenderer /\ [][NextRenderer]_vars

\* -------------------------------------------------- what the renderer gets
\* The ipcMain handlers on Linux return the promise of sendGstCommand: the
\* call resolves with the object handleGstResult passes, and rejects when the
\* promise is rejected by the timer, by a failed write or by killGst.
GstIpcResult(id) ==
    IF gstOutcome[id] = <<>> THEN "pending"
    ELSE IF gstOutcome[id][1] = "ok" THEN "success"
    ELSE IF gstOutcome[id][1] = "error" THEN "error"
    ELSE "rejected"
\* Off Linux the handlers await sendMpvCommand inside try/catch: a reply
\* without error gives success, a rejection gives an error object.
MpvIpcResult(id) ==
    IF mpvOutcome[id] = <<>> THEN "pending"
    ELSE IF mpvOutcome[id][1] = "resolved" THEN "success"
    ELSE "error"
\* the requests sent on behalf of the renderer

\* the computation of sendGstRect on its own, for every requested rectangle,
\* content size and scale factor
RectOrigins == {-3, 0, 1, 201, 801, 1000}
RectSizes == {-2, 0, 1, 199, 641, 3000}
RectViewports ==
    {NoViewport}
    \cup [x : RectOrigins, y : {0, 599, 700}, width : RectSizes, height : {0, 361, 3000},
          hidden : BOOLEAN]
ComputeRect(viewport, bounds, scaleFactor2) ==
    /\ rectOut = <<>>
    /\ rectOut' = [viewport |-> viewport, bounds |-> bounds,
                  rect |-> logicalRect(viewport, bounds),
                  scaled |-> deviceRect(logicalRect(viewport, bounds), scaleOf(scaleFactor2))]
    /\ UNCHANGED <<cmdOut, helperProc, preload, appVars, gstVars, mpvVars, helperVars, uiVars, statusVars>>
InitRect ==
    /\ HelperInit
    /\ StatusInit
    /\ RectInit
    /\ UiInit
    /\ GstRunning
NextRect ==
    \E viewport \in RectViewports, bounds \in RectBounds, scaleFactor2 \in Scales2 :
        ComputeRect(viewport, bounds, scaleFactor2)
SpecRect == InitRect /\ [][NextRect]_vars

\* Timers of a running event loop expire: a callback set with setTimeout is
\* run unless the process has quit.
FairSpec ==
    Spec /\ WF_vars(\E id \in GstIds : GstTimeout(id))
         /\ WF_vars(\E id \in MpvIds : MpvTimeout(id))

\* ============================================================ the helper
\* The helper process: the appsink callback (streaming thread), the
\* frame-writer thread and the main loop (commands and bus messages).
hostVars == <<appVars, gstVars, mpvVars, uiVars, rectVars, statusVars>>
playVars == <<pipeline, want_playing, buffering, is_playing, userIntent, endedSince,
              helperCall>>
queueVars == <<frame_queue, frame_queue_size, frame_id_counter, producerPc, writerPc,
               writerPacket>>

\* on_new_sample is entered with a mapped RGBA sample
ProducerEnter ==
    /\ producerPc = "idle"
    /\ frame_id_counter < MaxProduced
    /\ producerPc' = "test"
    /\ UNCHANGED <<frame_queue, frame_queue_size, frame_id_counter, writerPc, writerPacket>>
    /\ UNCHANGED <<hostVars, playVars>>
\* variant: the queue is taken for full only above FRAME_QUEUE_MAX
ProducerTestAbove ==
    /\ producerPc = "test"
    /\ producerPc' = IF frame_queue_size > FRAME_QUEUE_MAX THEN "pop" ELSE "push"
    /\ UNCHANGED <<frame_queue, frame_queue_size, frame_id_counter, writerPc, writerPacket>>
    /\ UNCHANGED <<hostVars, playVars>>
\* the loop test g_atomic_int_get(&frame_queue_size) >= FRAME_QUEUE_MAX
ProducerTest ==
    /\ producerPc = "test"
    /\ producerPc' = IF frame_queue_size >= FRAME_QUEUE_MAX THEN "pop" ELSE "push"
    /\ UNCHANGED <<frame_queue, frame_queue_size, frame_id_counter, writerPc, writerPacket>>
    /\ UNCHANGED <<hostVars, playVars>>
\* g_async_queue_try_pop: the oldest packet, or none and the loop is left
ProducerPop ==
    /\ producerPc = "pop"
    /\ IF frame_queue = <<>>
       THEN /\ producerPc' = "push"
            /\ UNCHANGED frame_queue
       ELSE /\ producerPc' = "dec"
            /\ frame_queue' = Tail(frame_queue)
    /\ UNCHANGED <<frame_queue_size, frame_id_counter, writerPc, writerPacket>>
    /\ UNCHANGED <<hostVars, playVars>>
\* frame_packet_free(old); g_atomic_int_add(&frame_queue_size, -1)
ProducerDec ==
    /\ producerPc = "dec"
    /\ frame_queue_size' = frame_queue_size - 1
    /\ producerPc' = "test"
    /\ UNCHANGED <<frame_queue, frame_id_counter, writerPc, writerPacket>>
    /\ UNCHANGED <<hostVars, playVars>>
\* the copy of the sample and g_async_queue_push
ProducerPush ==
    /\ producerPc = "push"
    /\ frame_id_counter' = frame_id_counter + 1
    /\ frame_queue' = Append(frame_queue, frame_id_counter + 1)
    /\ producerPc' = "inc"
    /\ UNCHANGED <<frame_queue_size, writerPc, writerPacket>>
    /\ UNCHANGED <<hostVars, playVars>>
\* g_atomic_int_add(&frame_queue_size, 1) and the return
ProducerInc ==
    /\ producerPc = "inc"
    /\ frame_queue_size' = frame_queue_size + 1
    /\ producerPc' = "idle"
    /\ UNCHANGED <<frame_queue, frame_id_counter, writerPc, writerPacket>>
    /\ UNCHANGED <<hostVars, playVars>>
ProducerStep == ProducerTest \/ ProducerPop \/ ProducerDec \/ ProducerPush \/ ProducerInc

\* g_async_queue_pop returns (it blocks on an empty queue)
WriterPop ==
    /\ writerPc = "pop"
    /\ frame_queue # <<>>
    /\ writerPacket' = Head(frame_queue)
    /\ frame_queue' = Tail(frame_queue)
    /\ writerPc' = "send"
    /\ UNCHANGED <<frame_queue_size, frame_id_counter, producerPc>>
    /\ UNCHANGED <<hostVars, playVars>>
\* send_frame_packet returns; on failure the thread ends
WriterSend(ok) ==
    /\ writerPc = "send"
    /\ writerPc' = IF ok THEN "dec" ELSE "ended"
    /\ writerPacket' = IF ok THEN writerPacket ELSE 0
    /\ UNCHANGED <<frame_queue, frame_queue_size, frame_id_counter, producerPc>>
    /\ UNCHANGED <<hostVars, playVars>>
\* frame_packet_free(packet); g_atomic_int_add(&frame_queue_size, -1)
WriterDec ==
    /\ writerPc = "dec"
    /\ frame_queue_size' = frame_queue_size - 1
    /\ writerPacket' = 0
    /\ writerPc' = "pop"
    /\ UNCHANGED <<frame_queue, frame_id_counter, producerPc>>
    /\ UNCHANGED <<hostVars, playVars>>

\* handle_command_line for the commands that reach the pipeline's state
HelperCommands == {"load", "play", "pause", "toggle", "stop", "seek"}
HelperCommand(cmd, hasArg) ==
    /\ IF cmd = "load" /\ hasArg
       THEN /\ helperCall' = <<"READY", "PLAYING">>
            /\ pipeline' = "PLAYING"
            /\ want_playing' = TRUE
            /\ is_playing' = TRUE
            /\ buffering' = FALSE
       ELSE IF cmd = "play"
       THEN /\ helperCall' = <<"PLAYING">>
            /\ pipeline' = "PLAYING"
            /\ want_playing' = TRUE
            /\ is_playing' = TRUE
            /\ buffering' = FALSE
       ELSE IF cmd = "pause"
       THEN /\ helperCall' = <<"PAUSED">>
            /\ pipeline' = "PAUSED"
            /\ is_playing' = FALSE
            /\ want_playing' = FALSE
            /\ UNCHANGED buffering
       ELSE IF cmd = "toggle"
       THEN IF want_playing
            THEN /\ helperCall' = <<"PAUSED">>
                 /\ pipeline' = "PAUSED"
                 /\ is_playing' = FALSE
                 /\ want_playing' = FALSE
                 /\ UNCHANGED buffering
            ELSE /\ helperCall' = <<"PLAYING">>
                 /\ pipeline' = "PLAYING"
                 /\ want_playing' = TRUE
                 /\ is_playing' = TRUE
                 /\ buffering' = FALSE
       ELSE IF cmd = "stop"
       THEN /\ helperCall' = <<"READY">>
            /\ pipeline' = "READY"
            /\ is_playing' = FALSE
            /\ want_playing' = FALSE
            /\ buffering' = FALSE
       ELSE /\ helperCall' = <<>>
            /\ UNCHANGED <<pipeline, want_playing, is_playing, buffering>>
    /\ IF cmd \in {"play", "pause", "toggle", "stop"} \/ (cmd = "load" /\ hasArg)
       THEN /\ userIntent' = want_playing'
            /\ endedSince' = FALSE
       ELSE UNCHANGED <<userIntent, endedSince>>
    /\ UNCHANGED <<hostVars, queueVars>>

\* bus_message_handler, GST_MESSAGE_BUFFERING
Percents == {0, 50, 100}
\* variant: buffering completion always resumes
BusBufferingResumes(percent) ==
    /\ IF percent < 100
       THEN /\ buffering' = TRUE
            /\ helperCall' = <<"PAUSED">>
            /\ pipeline' = "PAUSED"
       ELSE /\ buffering' = FALSE
            /\ helperCall' = <<"PLAYING">>
            /\ pipeline' = "PLAYING"
    /\ UNCHANGED <<want_playing, is_playing, userIntent, endedSince>>
    /\ UNCHANGED <<hostVars, queueVars>>
BusBuffering(percent) ==
    /\ IF percent < 100
       THEN /\ buffering' = TRUE
            /\ helperCall' = <<"PAUSED">>
            /\ pipeline' = "PAUSED"
       ELSE /\ buffering' = FALSE
            /\ IF want_playing
               THEN /\ helperCall' = <<"PLAYING">>
                    /\ pipeline' = "PLAYING"
               ELSE /\ helperCall' = <<>>
                    /\ UNCHANGED pipeline
    /\ UNCHANGED <<want_playing, is_playing, userIntent, endedSince>>
    /\ UNCHANGED <<hostVars, queueVars>>
\* GST_MESSAGE_ERROR
BusError ==
    /\ is_playing' = FALSE
    /\ want_playing' = FALSE
    /\ buffering' = FALSE
    /\ helperCall' = <<"READY">>
    /\ pipeline' = "READY"
    /\ endedSince' = TRUE
    /\ UNCHANGED userIntent
    /\ UNCHANGED <<hostVars, queueVars>>
\* GST_MESSAGE_EOS
BusEos ==
    /\ is_playing' = FALSE
    /\ want_playing' = FALSE
    /\ buffering' = FALSE
    /\ helperCall' = <<>>
    /\ endedSince' = TRUE
    /\ UNCHANGED <<pipeline, userIntent>>
    /\ UNCHANGED <<hostVars, queueVars>>
\* GST_MESSAGE_STATE_CHANGED of playbin
PipelineStates == {"NULL", "READY", "PAUSED", "PLAYING"}
BusStateChanged(new_state) ==
    /\ is_playing' = (new_state = "PLAYING")
    /\ helperCall' = <<>>
    /\ UNCHANGED <<pipeline, want_playing, buffering, userIntent, endedSince>>
    /\ UNCHANGED <<hostVars, queueVars>>

\* the helper after main has started the writer thread and the main loop
InitHelper ==
    /\ Init
    /\ platform = "linux"
    /\ scenario = "commands"
NextHelper ==
    \/ ProducerEnter
    \/ ProducerTest
    \/ ProducerPop
    \/ ProducerDec
    \/ ProducerPush
    \/ ProducerInc
    \/ WriterPop
    \/ \E ok \in BOOLEAN : WriterSend(ok)
    \/ WriterDec
    \/ \E cmd \in HelperCommands, hasArg \in BOOLEAN : HelperCommand(cmd, hasArg)
    \/ \E percent \in Percents : BusBuffering(percent)
    \/ BusError
    \/ BusEos
    \/ \E st \in PipelineStates : BusStateChanged(st)
SpecHelper == InitHelper /\ [][NextHelper]_vars

\* ------------------------------------------------- the text protocol
\* A command line is the command word followed by its space-separated parts,
\* each part a sequence of characters.  h is the helper's state: the state
\* last set on playbin, the playback flags, volume (thousandths of percent),
\* mute, window handle and rectangle, the uri, the last seek, whether the
\* main loop was told to quit, and the lines written to stdout.
g_ascii_isdigit(c) == IsDigits(c)
\* g_ascii_strtoll(s, NULL, 10) and g_ascii_strtod(s, NULL) (in thousandths)
g_ascii_strtoll(s) == parseInt(s).value
g_ascii_strtod(s) == parseFloat(s).value

\* send_result
send_result(h, request_id, ok, message) ==
    IF request_id < 0 THEN h
    ELSE [h EXCEPT !.out = Append(@, IF ok THEN <<"result", request_id, "ok">>
                                     ELSE <<"result", request_id, "error", message>>)]
\* emit_status on the helper's state; position and duration are what the
\* pipeline answers to the queries
helperStatus(h) ==
    [h EXCEPT !.out = Append(@, emit_status(h.is_playing, (h.volume + 500) \div 1000,
                                            h.muted, h.position, h.duration,
                                            h.buffering))]

\* variant: the part after the command is never taken for a request id
requestIdNever(parts) == FALSE
\* whether the part after the command is taken for the request id
hasRequestId(parts) == Len(parts) > 1 /\ parts[2] # <<>> /\ g_ascii_isdigit(parts[2][1])

\* variant: the status command writes its result before the status line
statusResultFirst(h, request_id) == helperStatus(send_result(h, request_id, TRUE, ""))
\* the status command: emit_status, then send_result
statusCommand(h, request_id) == send_result(helperStatus(h), request_id, TRUE, "")

\* handle_command_line on a line that is not empty; seekOk is the answer of
\* gst_element_seek_simple
handle_command_line(parts, h, seekOk) ==
    LET count == Len(parts)
        cmd == parts[1]
        withId == hasRequestId(parts)
        request_id == IF withId THEN g_ascii_strtoll(parts[2]) ELSE -1
        idx == IF withId THEN 2 ELSE 1
        \* parts[idx + k] of the source
        arg(k) == parts[idx + k + 1]
    IN
    IF cmd = "window"
    THEN IF count > idx
         THEN send_result([h EXCEPT !.window_handle = g_ascii_strtoll(arg(0))],
                          request_id, TRUE, "")
         ELSE send_result(h, request_id, FALSE, "missing window handle")
    ELSE IF cmd = "rect"
    THEN IF count > idx + 3
         THEN send_result([h EXCEPT !.rect = <<g_ascii_strtoll(arg(0)), g_ascii_strtoll(arg(1)),
                                               g_ascii_strtoll(arg(2)), g_ascii_strtoll(arg(3))>>],
                          request_id, TRUE, "")
         ELSE send_result(h, request_id, FALSE, "missing rect args")
    ELSE IF cmd = "load"
    THEN IF count > idx
         THEN helperStatus(send_result(
                  [h EXCEPT !.calls = @ \o <<"READY", "PLAYING">>,
                            !.pipeline = "PLAYING",
                            !.uri = SubSeq(parts, idx + 1, count),
                            !.want_playing = TRUE, !.is_playing = TRUE, !.buffering = FALSE],
                  request_id, TRUE, ""))
         ELSE send_result(h, request_id, FALSE, "missing url")
    ELSE IF cmd = "play"
    THEN helperStatus(send_result(
             [h EXCEPT !.calls = Append(@, "PLAYING"), !.pipeline = "PLAYING",
                       !.want_playing = TRUE, !.is_playing = TRUE, !.buffering = FALSE],
             request_id, TRUE, ""))
    ELSE IF cmd = "pause"
    THEN helperStatus(send_result(
             [h EXCEPT !.calls = Append(@, "PAUSED"), !.pipeline = "PAUSED",
                       !.is_playing = FALSE, !.want_playing = FALSE],
             request_id, TRUE, ""))
    ELSE IF cmd = "toggle"
    THEN helperStatus(send_result(
             IF h.want_playing
             THEN [h EXCEPT !.calls = Append(@, "PAUSED"), !.pipeline = "PAUSED",
                            !.is_playing = FALSE, !.want_playing = FALSE]
             ELSE [h EXCEPT !.calls = Append(@, "PLAYING"), !.pipeline = "PLAYING",
                            !.want_playing = TRUE, !.is_playing = TRUE, !.buffering = FALSE],
             request_id, TRUE, ""))
    ELSE IF cmd = "stop"
    THEN helperStatus(send_result(
             [h EXCEPT !.calls = Append(@, "READY"), !.pipeline = "READY",
                       !.is_playing = FALSE, !.want_playing = FALSE, !.buffering = FALSE],
             request_id, TRUE, ""))
    ELSE IF cmd = "seek"
    THEN IF count > idx
         THEN helperStatus(send_result([h EXCEPT !.seeks = Append(@, g_ascii_strtod(arg(0)))],
                                       request_id, seekOk, "seek failed"))
         ELSE send_result(h, request_id, FALSE, "missing seek time")
    ELSE IF cmd = "volume"
    THEN IF count > idx
         THEN LET v == g_ascii_strtod(arg(0))
                  clamped == IF v < 0 THEN 0 ELSE IF v > 1000000 THEN 1000000 ELSE v
              IN helperStatus(send_result([h EXCEPT !.volume = clamped],
                                          request_id, TRUE, ""))
         ELSE send_result(h, request_id, FALSE, "missing volume value")
    ELSE IF cmd = "mute"
    THEN IF count > idx
         THEN helperStatus(send_result([h EXCEPT !.muted = g_ascii_strtoll(arg(0)) # 0],
                                       request_id, TRUE, ""))
         ELSE send_result(h, request_id, FALSE, "missing mute value")
    ELSE IF cmd = "status"
    THEN statusCommand(h, request_id)
    ELSE IF cmd = "quit"
    THEN [send_result(h, request_id, TRUE, "") EXCEPT !.quit = TRUE]
    ELSE send_result(h, request_id, FALSE, "unknown command")

\* the commands of the protocol with the arguments the main process gives
\* them, with arguments missing, and a word that is no command
CommandArgs == {
    <<"window">>, <<"window", <<"7">>>>,
    <<"rect">>, <<"rect", <<"0">>, <<"1", "0">>>>,
    <<"rect", <<"0">>, <<"1", "0">>, <<"6", "4", "0">>, <<"3", "6", "0">>>>,
    <<"rect", <<"-", "3">>, <<"1", "0">>, <<"6", "4", "0">>, <<"3", "6", "0">>>>,
    <<"load">>, <<"load", <<"u", "r", "l">>>>, <<"load", <<"u", "r", "l">>, <<"2">>>>,
    <<"play">>, <<"pause">>, <<"toggle">>, <<"stop">>,
    <<"seek">>, <<"seek", <<"1", "2", ".", "5">>>>, <<"seek", <<"-", "5">>>>,
    <<"volume">>, <<"volume", <<"5", "0">>>>, <<"volume", <<"2", "5", "0", "0">>>>,
    <<"mute">>, <<"mute", <<"1">>>>, <<"mute", <<"0">>>>,
    <<"status">>, <<"quit">>, <<"bogus">>, <<"bogus", <<"x">>>> }
RequestIds == {<<"0">>, <<"1">>, <<"4", "2">>}
WithId(c, id) == <<c[1], id>> \o Tail(c)
HelperStates == {
    [pipeline |-> "NULL", want_playing |-> FALSE, is_playing |-> FALSE, buffering |-> FALSE,
     volume |-> 100000, muted |-> FALSE, window_handle |-> 0, rect |-> <<>>, uri |-> <<>>,
     position |-> 0, duration |-> 0, seeks |-> <<>>, calls |-> <<>>, quit |-> FALSE, out |-> <<>>],
    [pipeline |-> "PLAYING", want_playing |-> TRUE, is_playing |-> FALSE, buffering |-> TRUE,
     volume |-> 45000, muted |-> TRUE, window_handle |-> 3, rect |-> <<1, 2, 3, 4>>,
     uri |-> <<<<"o", "l", "d">>>>, position |-> 12340, duration |-> 600000, seeks |-> <<>>, calls |-> <<>>, quit |-> FALSE,
     out |-> <<>>] }

\* the helper reads one command line
ReadCommandLine(c, id, h, seekOk) ==
    /\ cmdOut = <<>>
    /\ cmdOut' = [command |-> c, id |-> id, seekOk |-> seekOk, before |-> h,
                  after |-> handle_command_line(IF id = <<>> THEN c ELSE WithId(c, id),
                                                h, seekOk)]
    /\ UNCHANGED <<rectOut, helperProc, preload, appVars, gstVars, mpvVars, helperVars,
                   uiVars, statusVars>>
InitCommand ==
    /\ HelperInit
    /\ StatusInit
    /\ RectInit
    /\ UiInit
    /\ GstRunning
NextCommand ==
    \E c \in CommandArgs, id \in RequestIds \cup {<<>>}, h \in HelperStates,
       seekOk \in BOOLEAN :
        ReadCommandLine(c, id, h, seekOk)
SpecCommand == InitCommand /\ [][NextCommand]_vars

\* ------------------------------------------- commands through the helper
\* the line the main process wrote, as the helper splits it; a line the
\* helper printed, as the main process splits it
ToHelperLine(w) == <<w[1], <<w[2]>>>> \o SubSeq(w, 3, Len(w))
ToHostLine(l) ==
    IF l[1] = "result"
    THEN <<"result", IdToString(l[2])>> \o SubSeq(l, 3, Len(l))
    ELSE l
ToHostLines(out) == [i \in 1..Len(out) |-> ToHostLine(out[i])]
\* The ways the pipe delivers lines to the data handler: all in one chunk,
\* one chunk for each line, or the first chunk ending inside the first line.
Cuttings(lines) ==
    { <<lines \o << <<>> >> >>,
      [i \in 1..Len(lines) |-> <<lines[i], <<>>>>],
      << <<SubSeq(lines[1], 1, 1)>>,
         <<Tail(lines[1])>> \o Tail(lines) \o << <<>> >> >> }
\* the state of the helper when it handles its k-th command
HelperAt(h, k) == [h EXCEPT !.position = 1000 * k, !.out = <<>>]

\* the helper's main loop reads the next command line and handles it
HelperReads(h, seekOk) ==
    LET k == cmdOut.read + 1 IN
    /\ gstAlive
    /\ k <= Len(gstWritten)
    /\ LET after == handle_command_line(ToHelperLine(gstWritten[k]), HelperAt(h, k), seekOk)
           lines == ToHostLines(after.out)
       IN \E cut \in Cuttings(lines) :
            cmdOut' = [cmdOut EXCEPT !.read = k,
                                     !.emitted = Append(@, SelectSeq(lines,
                                                     LAMBDA l : l[1] = "status")),
                                     !.unsent = @ \o cut]
    /\ UNCHANGED <<rectOut, helperProc, preload, appVars, gstVars, mpvVars, helperVars,
                   uiVars, statusVars>>
\* status_timer_cb
HelperStatusTimer(h) ==
    /\ gstAlive
    /\ cmdOut.timer < MaxStatus - MaxGstCommands
    /\ cmdOut' = [cmdOut EXCEPT
                     !.timer = @ + 1,
                     !.unsent = Append(@, ToHostLines(helperStatus(HelperAt(h, 0)).out)
                                          \o << <<>> >>)]
    /\ UNCHANGED <<rectOut, helperProc, preload, appVars, gstVars, mpvVars, helperVars,
                   uiVars, statusVars>>
\* the next chunk of the helper's output reaches the data handler
HelperOutput ==
    /\ cmdOut.unsent # <<>>
    /\ gstStdoutOnData(Head(cmdOut.unsent))
    /\ cmdOut' = [cmdOut EXCEPT !.unsent = Tail(@)]

GetStatusOps == {[command |-> c, args |-> <<>>] : c \in {"status", "play"}}
InitGetStatus ==
    /\ HelperInit
    /\ StatusInit
    /\ UiInit
    /\ rectOut = <<>>
    /\ HelperProcInit
    /\ PreloadInit
    /\ cmdOut = [read |-> 0, timer |-> 0, emitted |-> <<>>, unsent |-> <<>>]
    /\ GstRunning
NextGetStatus ==
    \/ \E op \in GetStatusOps : GstIpc(op, FALSE)
    \/ \E h \in HelperStates, seekOk \in BOOLEAN : HelperReads(h, seekOk)
    \/ \E h \in HelperStates : HelperStatusTimer(h)
    \/ HelperOutput
    \/ \E id \in GstIds : GstTimeout(id)
SpecGetStatus == InitGetStatus /\ [][NextGetStatus]_vars

\* ------------------------------------------------ the end of the helper
\* The frame-writer thread with its flag and the frame socket, and main from
\* the moment the main loop quits.  The wire is what send() has taken, as
\* runs of bytes: the frame a run belongs to, header or payload, the number
\* of bytes and the payload_size field of the frame's header.
writerVars == <<frame_queue, frame_queue_size, frame_id_counter, producerPc, writerPc,
                writerPacket, helperProc>>
notWriterVars == <<appVars, gstVars, mpvVars, uiVars, statusVars, rectOut, cmdOut, preload,
                  playVars>>
\* the size of the mapped buffer of a sample
PacketSize(id) == 16 * id
\* what one call of send() may take of n bytes
SendCounts(n) == {n} \cup {k \in {16} : k < n}

\* on_new_sample, called by the streaming thread while the pipeline runs
SampleArrives ==
    /\ helperProc.mainPc \in {"loop", "quit"}
    /\ ProducerEnter
\* the writer's read of frame_writer_running, a plain int main writes without
\* synchronisation: a read that does not follow a pop of main's item may still
\* see the value 1
RunningSeen(synchronised) ==
    IF helperProc.frame_writer_running \/ synchronised
    THEN {helperProc.frame_writer_running}
    ELSE BOOLEAN
\* while (frame_writer_running)
WriterTest(seen) ==
    /\ writerPc = "test"
    /\ seen \in RunningSeen(FALSE)
    /\ writerPc' = IF seen THEN "pop" ELSE "ended"
    /\ UNCHANGED <<frame_queue, frame_queue_size, frame_id_counter, producerPc, writerPacket,
                   helperProc>>
    /\ UNCHANGED notWriterVars
\* g_async_queue_pop returns an item (it blocks on an empty queue) and the two
\* tests of the flag that follow; 0 is the NULL item
WriterTakes(seen) ==
    /\ writerPc = "pop"
    /\ frame_queue # <<>>
    /\ seen \in RunningSeen(Head(frame_queue) = 0)
    /\ frame_queue' = Tail(frame_queue)
    /\ IF Head(frame_queue) = 0
       THEN /\ writerPc' = IF seen THEN "test" ELSE "ended"
            /\ UNCHANGED <<writerPacket, helperProc>>
       ELSE IF ~seen
       THEN /\ writerPc' = "ended"
            /\ UNCHANGED <<writerPacket, helperProc>>
       ELSE /\ writerPc' = "send"
            /\ writerPacket' = Head(frame_queue)
            /\ helperProc' = [helperProc EXCEPT !.part = "header",
                                                !.left = FRAME_HEADER_SIZE]
    /\ UNCHANGED <<frame_queue_size, frame_id_counter, producerPc>>
    /\ UNCHANGED notWriterVars
\* variant: a packet whose header went out is given up before its payload
send_frame_payloadHeaderOnly(hp, packet, n) ==
    IF n <= 0 THEN [hp EXCEPT !.part = "failed", !.left = 0]
    ELSE LET taken == Append(hp.wire, [frame_id |-> packet, part |-> hp.part, n |-> n,
                                      payload_size |-> PacketSize(packet)])
         IN IF hp.left > n
            THEN [hp EXCEPT !.wire = taken, !.left = @ - n]
            ELSE [hp EXCEPT !.wire = taken, !.part = "done", !.left = 0]
\* one call of send() in send_frame_payload, as send_frame_packet calls it
\* for the header and then for the payload: n is what
\* send() returns, -1 for an error other than EINTR
send_frame_payload(hp, packet, n) ==
    IF n <= 0 THEN [hp EXCEPT !.part = "failed", !.left = 0]
    ELSE LET taken == Append(hp.wire, [frame_id |-> packet, part |-> hp.part, n |-> n,
                                      payload_size |-> PacketSize(packet)])
         IN IF hp.left > n
            THEN [hp EXCEPT !.wire = taken, !.left = @ - n]
            ELSE IF hp.part = "header"
            THEN [hp EXCEPT !.wire = taken, !.part = "payload", !.left = PacketSize(packet)]
            ELSE [hp EXCEPT !.wire = taken, !.part = "done", !.left = 0]
\* the writer inside send_frame_packet (the socket is open as long as the
\* writer runs); when it has failed the writer closes the socket and ends,
\* when it is done the packet is freed and counted off
WriterSends(n) ==
    /\ writerPc = "send"
    /\ n \in SendCounts(helperProc.left) \cup {0, -1}
    /\ LET hp == send_frame_payload(helperProc, writerPacket, n) IN
       IF hp.part = "failed"
       THEN /\ helperProc' = [hp EXCEPT !.part = "none", !.frame_socket_fd = FALSE]
            /\ writerPc' = "ended"
            /\ writerPacket' = 0
            /\ UNCHANGED frame_queue_size
       ELSE IF hp.part = "done"
       THEN /\ helperProc' = [hp EXCEPT !.part = "none"]
            /\ writerPc' = "test"
            /\ writerPacket' = 0
            /\ frame_queue_size' = frame_queue_size - 1
       ELSE /\ helperProc' = hp
            /\ UNCHANGED <<writerPc, writerPacket, frame_queue_size>>
    /\ UNCHANGED <<frame_queue, frame_id_counter, producerPc>>
    /\ UNCHANGED notWriterVars

\* the quit command, end of file or a hang-up on stdin: g_main_loop_quit
QuitCauses == {"quit", "eof", "hup"}
MainLoopQuit(cause) ==
    /\ helperProc.mainPc = "loop"
    /\ helperProc' = [helperProc EXCEPT !.mainPc = "quit"]
    /\ UNCHANGED <<frame_queue, frame_queue_size, frame_id_counter, producerPc, writerPc,
                   writerPacket>>
    /\ UNCHANGED notWriterVars
\* gst_element_set_state(playbin, GST_STATE_NULL) returns when the streaming
\* thread has left the appsink callback; then frame_writer_running = 0
MainStops ==
    /\ helperProc.mainPc = "quit"
    /\ producerPc = "idle"
    /\ helperProc' = [helperProc EXCEPT !.mainPc = "push", !.frame_writer_running = FALSE]
    /\ UNCHANGED <<frame_queue, frame_queue_size, frame_id_counter, producerPc, writerPc,
                   writerPacket>>
    /\ UNCHANGED notWriterVars
\* g_async_queue_push(frame_queue, NULL): GLib refuses a NULL item with
\* g_return_if_fail and queues nothing; built without these checks it queues
\* the item
MainPushesNull(checked) ==
    /\ helperProc.mainPc = "push"
    /\ helperProc' = [helperProc EXCEPT !.mainPc = "join"]
    /\ frame_queue' = IF checked THEN frame_queue ELSE Append(frame_queue, 0)
    /\ UNCHANGED <<frame_queue_size, frame_id_counter, producerPc, writerPc, writerPacket>>
    /\ UNCHANGED notWriterVars
\* g_thread_join returns when the writer thread has ended; the queue is
\* released, the socket closed if it is open, and main returns
MainJoins ==
    /\ helperProc.mainPc = "join"
    /\ writerPc = "ended"
    /\ helperProc' = [helperProc EXCEPT !.mainPc = "returned", !.frame_socket_fd = FALSE]
    /\ frame_queue' = <<>>
    /\ UNCHANGED <<frame_queue_size, frame_id_counter, producerPc, writerPc, writerPacket>>
    /\ UNCHANGED notWriterVars

InitWriter ==
    /\ Init
    /\ platform = "linux"
    /\ scenario = "commands"
NextWriter ==
    \/ SampleArrives
    \/ ProducerTest
    \/ ProducerPop
    \/ ProducerDec
    \/ ProducerPush
    \/ ProducerInc
    \/ \E seen \in BOOLEAN : WriterTest(seen)
    \/ \E seen \in BOOLEAN : WriterTakes(seen)
    \/ \E n \in -1..FRAME_HEADER_SIZE : WriterSends(n)
    \/ \E cause \in QuitCauses : MainLoopQuit(cause)
    \/ MainStops
    \/ \E checked \in BOOLEAN : MainPushesNull(checked)
    \/ MainJoins
\* Every thread of the helper is scheduled, and a blocking send() returns:
\* the peer reads, or it closes the socket and the send fails.
SpecWriter ==
    /\ InitWriter
    /\ [][NextWriter]_vars
    /\ WF_writerVars(NextWriter)

\* ------------------------------------------------- the preload script
notPreloadVars == <<appVars, gstVars, mpvVars, helperVars, uiVars, statusVars, rectOut, cmdOut,
                    helperProc>>
\* ipcRenderer.on('mpv-ready'): lastReady is set and every ready listener
\* called with the value
IpcReady(data) ==
    /\ preload' = [preload EXCEPT
                      !.lastReady = <<data>>,
                      !.flag = [cb \in Callbacks |->
                                   IF cb \in preload.listeners["ready"] THEN <<data>>
                                   ELSE preload.flag[cb]],
                      !.called = {<<"ready", cb>> : cb \in preload.listeners["ready"]}]
    /\ UNCHANGED notPreloadVars
\* ipcRenderer.on of the other five channels: every listener of the channel
\* is called
IpcEvent(kind) ==
    /\ kind \in ListenerKinds \ {"ready"}
    /\ preload' = [preload EXCEPT
                      !.called = {<<kind, cb>> : cb \in preload.listeners[kind]}]
    /\ UNCHANGED notPreloadVars
\* variant: the listener is added and not called
onReadyAddOnly(p, callback) ==
    [p EXCEPT !.listeners["ready"] = @ \cup {callback}, !.called = {}]
\* mpvApi.onReady
onReady(p, callback) ==
    IF p.lastReady # <<>>
    THEN [p EXCEPT !.listeners["ready"] = @ \cup {callback},
                   !.flag[callback] = p.lastReady,
                   !.called = {<<"ready", callback>>}]
    ELSE [p EXCEPT !.listeners["ready"] = @ \cup {callback}, !.called = {}]
RegisterReady(callback) ==
    /\ preload' = onReady(preload, callback)
    /\ UNCHANGED notPreloadVars
\* mpvApi.onStatus, onWarning, onError, onFrame, onVideoInfo
RegisterListener(kind, callback) ==
    /\ kind \in ListenerKinds \ {"ready"}
    /\ preload' = [preload EXCEPT !.listeners[kind] = @ \cup {callback}, !.called = {}]
    /\ UNCHANGED notPreloadVars
\* mpvApi.removeAllListeners
RemoveAllListeners ==
    /\ preload' = [preload EXCEPT !.listeners = [k \in ListenerKinds |-> {}],
                                  !.called = {}]
    /\ UNCHANGED notPreloadVars
InitPreload ==
    /\ Init
    /\ platform = "linux"
    /\ scenario = "commands"
NextPreload ==
    \/ \E data \in BOOLEAN : IpcReady(data)
    \/ \E kind \in ListenerKinds : IpcEvent(kind)
    \/ \E callback \in Callbacks : RegisterReady(callback)
    \/ \E kind \in ListenerKinds, callback \in Callbacks : RegisterListener(kind, callback)
    \/ RemoveAllListeners
SpecPreload == InitPreload /\ [][NextPreload]_vars

\* ==================================================================== claims
Range(f) == {f[i] : i \in DOMAIN f}

\* C1: every request's promise is settled at most once, whatever the order of
\* reply, timeout, failed write and stop.
C1_SettledAtMostOnce ==
    /\ \A id \in GstIds : Len(gstOutcome[id]) <= 1
    /\ \A id \in MpvIds : Len(mpvOutcome[id]) <= 1
\* a reply settled request 1 and its timer has fired since
C1_Witness ==
    /\ gstOutcome[1] = <<"ok">>
    /\ gstRequestId >= 1
    /\ 1 \notin Range(gstTimers)

\* C2: a timer that fires on a request still pending removes the entry and
\* rejects with a timeout; from then on no reply for that id settles anything
\* or changes the pending map (both variants).
C2_TimedOut(outcome, pending, id) == outcome[id] = <<"timeout">> /\ id \notin pending
GstReplyFor(chunk, id) ==
    /\ Len(chunk) >= 2
    /\ \A i \in 1..(Len(chunk) - 1) :
          Len(chunk[i]) >= 3 /\ chunk[i][1] = "result" /\ chunk[i][2] = IdToString(id)
MpvReplyFor(chunk, id) ==
    /\ Len(chunk) = 2
    /\ Len(chunk[1]) = 1
    /\ chunk[1][1].json
    /\ "request_id" \in DOMAIN chunk[1][1].msg
    /\ chunk[1][1].msg.request_id = id
C2_TimeoutThenLateReply ==
    /\ [][\A id \in GstIds :
            /\ (gstTimers # <<>> /\ Head(gstTimers) = id /\ id \in gstPendingRequests
                /\ gstTimers' = Tail(gstTimers))
               => C2_TimedOut(gstOutcome', gstPendingRequests', id)
            /\ C2_TimedOut(gstOutcome, gstPendingRequests, id)
               => /\ C2_TimedOut(gstOutcome', gstPendingRequests', id)
                  /\ (\E chunk \in GstChunks : /\ gstBuffer = <<>>
                                                /\ GstReplyFor(chunk, id)
                                                /\ GstStdoutData(chunk))
                     => UNCHANGED <<gstPendingRequests, gstOutcome>>]_vars
    /\ [][\A id \in MpvIds :
            /\ (mpvTimers # <<>> /\ Head(mpvTimers) = id /\ id \in pendingRequests
                /\ mpvTimers' = Tail(mpvTimers))
               => C2_TimedOut(mpvOutcome', pendingRequests', id)
            /\ C2_TimedOut(mpvOutcome, pendingRequests, id)
               => /\ C2_TimedOut(mpvOutcome', pendingRequests', id)
                  /\ (\E chunk \in MpvChunks : /\ mpvLineBuffer = <<>>
                                                /\ MpvReplyFor(chunk, id)
                                                /\ MpvSocketData(chunk))
                     => UNCHANGED <<pendingRequests, mpvOutcome>>]_vars
\* request 1 of the socket variant timed out while mpv is still connected
C2_Witness ==
    /\ mpvOutcome[1] = <<"timeout">>
    /\ mpvConn = "connected"
    /\ 1 \notin pendingRequests

\* C3: every request that entered a pending map leaves it again.
C3_PendingLeaves ==
    /\ \A id \in GstIds : (id \in gstPendingRequests) ~> (id \notin gstPendingRequests)
    /\ \A id \in MpvIds : (id \in pendingRequests) ~> (id \notin pendingRequests)

\* C4: a command issued while no backend is connected completes at once with
\* a not-connected error, adds no pending entry and writes nothing.
NotConnected ==
    IF platform = "linux" THEN gstProcess = "null" \/ ~gstStdin ELSE mpvSocket = "null"
NotConnectedErrors == {"resolved: GStreamer helper not running", "rejected: Not connected",
                       "resolved: mpv not initialized"}
C4_NotConnected ==
    [][(ret' \in NotConnectedErrors \cup {"pending"} /\ NotConnected)
       => /\ ret' \in NotConnectedErrors
          /\ UNCHANGED <<gstCmdVars, mpvCmdVars>>]_vars
\* sendMpvCommand itself met the missing socket (mpv-load resumed after stop)
C4_Witness == ret = "rejected: Not connected"

\* C5: no callback observes the helper's process handle cleared while a
\* request is pending or the frame socket is still registered.
C5_StopAtomic ==
    gstProcess = "null"
    => /\ gstPendingRequests = {}
       /\ gstFrameSocketPath = "null"
       /\ gstFrameServer = "null"
       /\ ~frameSocketFile
\* a stop that had a pending request to reject
C5_Witness ==
    /\ gstProcess = "null"
    /\ \E id \in GstIds : gstOutcome[id] = <<"stopped">>

\* C6: after stop on either backend its pending map is empty, the requests
\* pending at the stop having been rejected with the backend-stopped error.
C6_StopRejectsPending ==
    [][justStopped'
       => /\ gstPendingRequests' = {}
          /\ pendingRequests' = {}
          /\ \A id \in gstPendingRequests : gstOutcome'[id] = <<"stopped">>
          /\ \A id \in pendingRequests : mpvOutcome'[id] = <<"stopped">>]_vars

\* C7: a stop directly after a stop leaves the supervisor state as it was.
C7_StopIdempotent ==
    [][(justStopped /\ justStopped')
       => UNCHANGED <<gstProcess, gstReady, gstBuffer, gstStderrTail, gstLastRect,
                      gstViewport, gstFrameServer, gstFrameSocketPath, frameSocketFile,
                      gstLatestFrame, gstFrameBuffer, gstLastVideoInfoKey,
                      gstFrameSendScheduled, gstPendingRequests, gstOutcome,
                      mpvSocket, mpvProcess, mpvSocketFile, pendingRequests, mpvOutcome>>]_vars
\* the second stop ran after a first one that rejected a request
C7_Witness ==
    /\ justStopped
    /\ appPc \in {"quit", "idle"}
    /\ \E id \in GstIds : gstOutcome[id] = <<"stopped">>

\* C8: an exit of the helper that no stop preceded tears down like stop and
\* sends exactly one error event, carrying the stderr tail (the last 6
\* non-empty lines at most); it neither quits nor restarts.
ErrorEvents(events) == {i \in 1..Len(events) : events[i].channel = "mpv-error"}
LastLines(count) ==
    LET k == Min(GST_STDERR_TAIL_MAX, count) IN [i \in 1..k |-> <<count - k + i>>]
C8_UnexpectedExit ==
    [][(gstAlive /\ ~gstAlive' /\ gstProcess # "null")
       => /\ gstProcess' = "null" /\ ~gstReady' /\ gstBuffer' = <<>> /\ gstStderrTail' = <<>>
          /\ gstFrameServer' = "null" /\ gstFrameSocketPath' = "null" /\ ~frameSocketFile'
          /\ gstLatestFrame' = <<>> /\ gstFrameBuffer' = <<>>
          /\ gstPendingRequests' = {}
          /\ \A id \in gstPendingRequests : gstOutcome'[id] = <<"stopped">>
          /\ Cardinality(ErrorEvents(sent')) = 1
          /\ \A i \in ErrorEvents(sent') :
                /\ sent'[i].data[3] = gstStderrTail
                /\ Len(sent'[i].data[3]) <= GST_STDERR_TAIL_MAX
                /\ sent'[i].data[3] = LastLines(gstStderrCount)
          /\ appPc' = appPc
          /\ mainWindow' = mainWindow]_vars
\* the helper died after more than 6 stderr lines, with a request pending
C8_Witness ==
    /\ ~gstAlive
    /\ gstStderrCount > GST_STDERR_TAIL_MAX
    /\ \E i \in ErrorEvents(sent) :
          /\ Len(sent[i].data) = 3
          /\ sent[i].data[1] = "GStreamer helper exited"
          /\ Len(sent[i].data[3]) = GST_STDERR_TAIL_MAX
    /\ \E id \in GstIds : gstOutcome[id] = <<"stopped">>

\* ------------------------------------------------------------ frame decoder
\* what a packet is when decoded without loss
Exact(p) ==
    [info |-> [width |-> p.width, height |-> p.height, stride |-> p.stride,
               format |-> "RGBA", pts |-> PadTo(readBigUInt64LE(p.pts, 0), 65),
               frameId |-> p.frame_id],
     data |-> p.data]
Delivered == Len(StreamBytes(frameInput)) - Len(frameWire)
\* offset of the end of packet i of the stream
RECURSIVE EndOf(_)
EndOf(i) ==
    IF i = 0 THEN Len(frameInput.prefix)
    ELSE EndOf(i - 1) + Len(send_frame_packet(frameInput.packets[i]))
Complete == {i \in 1..Len(frameInput.packets) : EndOf(i) <= Delivered}
WellFormed ==
    /\ frameConn
    /\ frameInput.prefix = <<>>
    /\ scenario = "frames"
    /\ \A i \in DOMAIN frameInput.packets :
          frameInput.packets[i].format = FRAME_FORMAT_RGBA
\* decoded without loss, up to the rounding of a pts of 2^53 and more
UpToPts(f, p) ==
    /\ [f.info EXCEPT !.pts = 0] = [Exact(p).info EXCEPT !.pts = 0]
    /\ f.data = p.data
    /\ TopBit(readBigUInt64LE(p.pts, 0)) <= 53 => f.info.pts = Exact(p).info.pts

\* C9: after damaged data the decoder emits the clean frame that follows,
\* however the stream is cut into chunks.
C9_Resynchronizes ==
    (scenario = "frames" /\ frameInput.prefix # <<>> /\ frameWire = <<>>)
    => (framesParsed # <<>> /\ framesParsed[Len(framesParsed)] = Exact(CleanPacket))

\* C10: of a well-formed stream in any chunks the decoder hands over exactly
\* the complete packets, in order, with the fields and payload of their
\* headers, and keeps the incomplete rest buffered.
C10_Original ==
    WellFormed
    => /\ Len(framesParsed) = Cardinality(Complete)
       /\ \A i \in Complete : framesParsed[i] = Exact(frameInput.packets[i])
       /\ gstFrameBuffer = SubSeq(StreamBytes(frameInput),
                                  EndOf(Cardinality(Complete)) + 1, Delivered)
\* C10 as amended: the pts is exact below 2^53
C10_WellFormedStream ==
    WellFormed
    => /\ Len(framesParsed) = Cardinality(Complete)
       /\ \A i \in Complete : UpToPts(framesParsed[i], frameInput.packets[i])
       /\ gstFrameBuffer = SubSeq(StreamBytes(frameInput),
                                  EndOf(Cardinality(Complete)) + 1, Delivered)
\* two packets decoded, the second one waiting incomplete in the buffer at
\* some point before
C10_Witness ==
    /\ WellFormed
    /\ Len(frameInput.packets) = 2
    /\ Len(framesParsed) = 1
    /\ Len(gstFrameBuffer) > FRAME_HEADER_SIZE

\* C11: at most one decoded frame waits for the renderer and at most one send
\* callback is queued; the callback sends exactly one frame, the last one
\* decoded before it ran.
FrameEvents(events) == {i \in 1..Len(events) : events[i].channel = "player-frame"}
C11_LatestWins ==
    /\ [](/\ Len(gstLatestFrame) <= 1
          /\ frameImmediates <= 1
          /\ gstLatestFrame # <<>>
             => /\ framesParsed # <<>>
                /\ gstLatestFrame[1] = framesParsed[Len(framesParsed)])
    /\ [][(frameImmediates' = frameImmediates - 1 /\ gstLatestFrame # <<>>
           /\ mainWindow # "null")
          => /\ Cardinality(FrameEvents(sent')) = 1
             /\ Len(sent') = 1
             /\ sent'[1].data = framesParsed[Len(framesParsed)]
             /\ gstLatestFrame' = <<>>]_vars
\* two frames were decoded before the callback ran, and it sent the second
C11_Witness ==
    /\ scenario = "frames"
    /\ Len(framesParsed) = 2
    /\ framesParsed[1] # framesParsed[2]
    /\ frameWire = <<>>
    /\ Len(StreamBytes(frameInput)) <= 40 + 64
    /\ frameImmediates = 0
    /\ sent # <<>>
    /\ sent[1].channel = "player-frame"
    /\ sent[1].data = framesParsed[2]

\* ---------------------------------------------------------- helper: queue
\* C12: the frame queue never holds more than 3 packets; a producer that
\* meets a full queue takes the oldest packet out before it adds the newest;
\* the producer can always take its next step, whatever the writer is doing.
C12_BoundedQueue ==
    /\ [](Len(frame_queue) <= FRAME_QUEUE_MAX)
    /\ [](producerPc # "idle" => ENABLED ProducerStep)
    /\ [][/\ (producerPc = "test" /\ Len(frame_queue) = FRAME_QUEUE_MAX
              /\ producerPc' # producerPc) => producerPc' = "pop"
          /\ (producerPc = "pop" /\ producerPc' = "dec")
             => frame_queue' = Tail(frame_queue)
          /\ (producerPc = "push" /\ producerPc' = "inc")
             => /\ Len(frame_queue) < FRAME_QUEUE_MAX
                /\ frame_queue' = Append(frame_queue, frame_id_counter')]_vars
\* the producer has just taken the oldest packet out of a full queue while
\* the writer is inside a socket write
C12_Witness ==
    /\ producerPc = "dec"
    /\ writerPc = "send"
    /\ frame_queue # <<>>
    /\ frame_queue[1] > writerPacket + 1

\* ------------------------------------------------------- helper: buffering
\* C20: buffering below 100% pauses the pipeline and leaves the intent alone;
\* at 100% the pipeline is set to playing exactly if the last user command
\* left the intent at playing.
C20_Original ==
    [][\A percent \in Percents :
          BusBuffering(percent)
          => IF percent < 100
             THEN /\ helperCall' = <<"PAUSED">> /\ pipeline' = "PAUSED"
                  /\ want_playing' = want_playing /\ userIntent' = userIntent
             ELSE /\ helperCall' = <<"PLAYING">> <=> userIntent
                  /\ helperCall' = <<"PLAYING">> => pipeline' = "PLAYING"
                  /\ helperCall' # <<"PLAYING">> => (helperCall' = <<>> /\ pipeline' = pipeline)]_vars
\* C20 as amended: an error or the end of the stream also ends the intent
C20_BufferingKeepsIntent ==
    [][\A percent \in Percents :
          BusBuffering(percent)
          => IF percent < 100
             THEN /\ helperCall' = <<"PAUSED">> /\ pipeline' = "PAUSED"
                  /\ want_playing' = want_playing /\ userIntent' = userIntent
             ELSE /\ helperCall' = <<"PLAYING">> <=> (userIntent /\ ~endedSince)
                  /\ helperCall' = <<"PLAYING">> => pipeline' = "PLAYING"
                  /\ helperCall' # <<"PLAYING">> => (helperCall' = <<>> /\ pipeline' = pipeline)]_vars
\* buffering has completed and playback the user wanted was resumed
C20_Witness ==
    /\ helperCall = <<"PLAYING">>
    /\ pipeline = "PLAYING"
    /\ ~buffering
    /\ userIntent /\ ~endedSince
    /\ ~is_playing

\* ---- status pushes
\* the playback state after the first n updates of the log, merged in order
InitialPlayback ==
    [playing |-> FALSE, volume |-> 100, muted |-> FALSE, position |-> 0, duration |-> 0]
ApplyUpdate(u, state) ==
    IF u.kind = "gst" THEN mergeGstStatus(u.line, state)
    ELSE IF u.kind = "mpv" THEN mergeMpvProperty(u.msg, state)
    ELSE [state EXCEPT !.muted = ~@]
RECURSIVE MergedUpTo(_)
MergedUpTo(n) ==
    IF n = 0 THEN InitialPlayback ELSE ApplyUpdate(statusLog[n], MergedUpTo(n - 1))
StatusEvents(events) == SelectSeq(events, LAMBDA e : e.channel = "mpv-status")

\* C13: two consecutive status pushes to the renderer are at least 100 ms
\* apart, and every push carries the playback state merged from all updates
\* received up to the moment it is sent; the pushes are exactly the
\* mpv-status events the handlers send.
C13_ThrottledMergedPush ==
    /\ [](\A i \in 1..Len(pushLog) :
            /\ pushLog[i].data = MergedUpTo(pushLog[i].seen)
            /\ i > 1 => pushLog[i].at - pushLog[i - 1].at >= 100)
    /\ [][IF now' # now
          THEN pushLog' = pushLog
          ELSE /\ Len(pushLog') >= Len(pushLog)
               /\ SubSeq(pushLog', 1, Len(pushLog)) = pushLog
               /\ StatusEvents(sent') =
                     [i \in 1..(Len(pushLog') - Len(pushLog)) |->
                         [channel |-> "mpv-status",
                          data |-> pushLog'[Len(pushLog) + i].data]]
               /\ \A i \in (Len(pushLog) + 1)..Len(pushLog') :
                     /\ pushLog'[i].at = now
                     /\ pushLog'[i].seen \in (Len(statusLog) + 1)..Len(statusLog')]_vars
\* a second push that carries an update which was held back by the throttle
C13_Witness ==
    /\ Len(pushLog) >= 2
    /\ pushLog[2].seen >= pushLog[1].seen + 2
    /\ pushLog[2].data # pushLog[1].data
    /\ StatusEvents(sent) # <<>>
    /\ pushLog[2].data # MergedUpTo(pushLog[2].seen - 1)

\* ---- the merge of one status line
Flag(b) == IF b THEN 1 ELSE 0
\* the fields of a playback state as numbers
FieldValue(state, key) ==
    IF key = "playing" THEN Flag(state.playing)
    ELSE IF key = "muted" THEN Flag(state.muted)
    ELSE state[key]
StateKeys == {"playing", "volume", "muted", "position", "duration"}
Stated(case, key) == {i \in 1..Len(case) : case[i].key = key}

\* C14: when a status line is handled, each field of the playback state whose
\* key appears in the line takes the value the line states, each field whose
\* key is absent keeps its previous value, and unknown keys change nothing;
\* a line the helper prints yields the helper's playing, volume, muted,
\* position and duration, and the line "status playing=1 volume=45 muted=0
\* position=12.340 duration=600.000 buffering=0" yields playing, volume 45,
\* not muted, position 12.34 and duration 600.
C14_StatusMerge ==
    [][/\ \A case \in PartialCases :
            GstStdoutData(<<CaseLine(case), <<>>>>) =>
                \A key \in StateKeys :
                    FieldValue(mpvState', key) =
                        IF Stated(case, key) # {}
                        THEN case[CHOOSE i \in Stated(case, key) : TRUE].value
                        ELSE FieldValue(mpvState, key)
       /\ \A h \in HelperStatuses :
            GstStdoutData(<<HelperLine(h), <<>>>>) =>
                mpvState' = [playing |-> h.playing, volume |-> h.volume,
                             muted |-> h.muted, position |-> h.position,
                             duration |-> h.duration]
       /\ GstStdoutData(<<ExampleLine, <<>>>>) =>
                mpvState' = [playing |-> TRUE, volume |-> 45, muted |-> FALSE,
                             position |-> 12340, duration |-> 600000]]_vars
\* the example line has been merged and pushed to the renderer
C14_Witness ==
    /\ Len(statusLog) = 1
    /\ statusLog[1].line = ExampleLine
    /\ mpvState = [playing |-> TRUE, volume |-> 45, muted |-> FALSE,
                   position |-> 12340, duration |-> 600000]
    /\ pushLog # <<>>
    /\ pushLog[1].data = mpvState

\* ---- stream fallbacks
\* the calls for which getStreamFallbacks has been evaluated
Resolved == {c \in 1..Len(uiCalls) : uiCalls[c].pc \in {"fallback", "failed"}
                                     \/ uiCalls[c].idx >= 1}
\* the extensions tried after the primary, in order
FallbackOrder(isLive) == IF isLive THEN <<"m3u8", "m3u">> ELSE <<"m3u8", "ts">>
LiveTs == <<"http:", "//", "host", "/", "live", "/", "1234", ".", "ts">>
VodMp4 == <<"http:", "//", "host", "/", "vod", "/", "99", ".", "mp4">>

\* C15: the fallback candidates of a primary URL keep its scheme, host and
\* query and replace only the extension that ends its path: .m3u8 then .m3u
\* for live content, .m3u8 then .ts for on-demand content, without the
\* extension the primary has; http://host/live/1234.ts (live) gives the
\* .m3u8 and the .m3u URL and http://host/vod/99.mp4 (on demand) the .m3u8 and
\* the .ts URL; a primary that does not parse or whose path does not end in
\* an extension has no candidates.
C15_Fallbacks ==
    \A c \in Resolved :
        LET call == uiCalls[c]
            P == parseUrl(call.primary)
            n == Len(P.pathname)
        IN /\ IF ~P.ok \/ ~(n >= 2 /\ P.pathname[n - 1] = "." /\ P.pathname[n] \in AlnumWords)
              THEN call.candidates = <<>>
              ELSE LET exts == SelectSeq(FallbackOrder(call.isLive),
                                         LAMBDA e : e # toLowerCase(P.pathname[n]))
                   IN /\ Len(call.candidates) = Len(exts)
                      /\ \A i \in 1..Len(exts) :
                            LET Q == parseUrl(call.candidates[i]) IN
                            /\ Q.ok
                            /\ Q.scheme = P.scheme
                            /\ Q.host = P.host
                            /\ Q.search = P.search
                            /\ Q.hash = P.hash
                            /\ Q.pathname = SubSeq(P.pathname, 1, n - 2) \o <<".", exts[i]>>
           /\ (call.primary = LiveTs /\ call.isLive) =>
                 call.candidates =
                    << <<"http:", "//", "host", "/", "live", "/", "1234", ".", "m3u8">>,
                       <<"http:", "//", "host", "/", "live", "/", "1234", ".", "m3u">> >>
           /\ (call.primary = VodMp4 /\ ~call.isLive) =>
                 call.candidates =
                    << <<"http:", "//", "host", "/", "vod", "/", "99", ".", "m3u8">>,
                       <<"http:", "//", "host", "/", "vod", "/", "99", ".", "ts">> >>
\* the on-demand example has failed on all three of its URLs
C15_Witness ==
    /\ uiCalls # <<>>
    /\ uiCalls[1].primary = VodMp4
    /\ ~uiCalls[1].isLive
    /\ uiCalls[1].pc = "failed"
    /\ Len(uiCalls[1].candidates) = 2
    /\ Len(uiLoads) = 3

\* ---- load with fallbacks
\* C16: a load tries the primary and then the fallback candidates in order:
\* when an attempt is accepted no further load is issued, the accepted URL
\* becomes the current one and playback is marked as playing; when an attempt
\* is not accepted the next candidate is loaded; when the last one is not
\* accepted the error of the primary attempt is reported and the current
\* channel and the playing state stay as they were.
C16_LoadInOrder ==
    [][\A c \in 1..Len(uiCalls), outcome \in LoadOutcomes :
          LoadSettled(c, outcome) =>
              LET call == uiCalls[c]
                  all == <<call.primary>> \o getStreamFallbacks(call.primary, call.isLive)
                  k == call.idx + 1
              IN IF outcome = "success"
                 THEN /\ currentChannel' = all[k]
                      /\ uiPlaying'
                      /\ uiLoads' = uiLoads
                 ELSE IF k < Len(all)
                 THEN /\ uiLoads' = Append(uiLoads, [call |-> c, url |-> all[k + 1]])
                      /\ UNCHANGED <<currentChannel, uiPlaying>>
                 ELSE /\ uiError' = (IF call.idx = 0 THEN outcome ELSE call.firstError)
                      /\ UNCHANGED <<currentChannel, uiPlaying, uiLoads>>]_vars

\* ---- outcomes of the playback operations
\* C19: every playback operation invoked through an IPC handler that has
\* completed, on either backend, completed with an outcome object carrying
\* success or an error text; the call is never rejected, whether the backend
\* replied, the command timed out, the write failed or the backend was
\* stopped while the command was pending.
C19_OutcomeObject ==
    /\ \A id \in GstIds : GstIpcResult(id) \in {"pending", "success", "error"}
    /\ \A id \in MpvUserIds : MpvIpcResult(id) \in {"pending", "success", "error"}

\* ---- the video rectangle
\* the rect commands written to the helper
RectCommands(written) == SelectSeq(written, LAMBDA w : w[1] = "rect")

\* C17 as stated: a viewport update handled while the helper runs either
\* yields a rectangle that differs from the last one sent and issues exactly
\* one rect command, or yields the rectangle sent last and issues none.
C17_Original ==
    [][\A rect \in Viewports :
          (SetViewport(rect) /\ gstProcess # "null" /\ gstStdin) =>
              IF gstLastRect' # gstLastRect
              THEN Len(RectCommands(gstWritten')) = Len(RectCommands(gstWritten)) + 1
              ELSE gstLastRect # NullRect /\ gstWritten' = gstWritten]_vars
\* C17: a viewport update records the requested rectangle and completes with
\* success; the helper is started on Linux only, where it renders through
\* appsink and sendGstRect returns at once, so no viewport update issues a
\* rect command and no rectangle is ever recorded as sent.
C17_NoRectInAppsink ==
    /\ [](gstLastRect = NullRect /\ RectCommands(gstWritten) = <<>>)
    /\ [][\A rect \in Viewports :
            SetViewport(rect) =>
                /\ gstViewport' = rect
                /\ ret' = "resolved: success"
                /\ gstWritten' = gstWritten
                /\ gstRequestId' = gstRequestId]_vars
\* a viewport update has been handled while the helper runs and takes commands
C17_Witness ==
    /\ platform = "linux"
    /\ gstProcess # "null"
    /\ gstStdin
    /\ gstAlive
    /\ gstViewport # NoViewport
    /\ ret = "resolved: success"
    /\ gstRequestId < CommandBudget

C22_LoopProgress ==
    /\ [][(decodePc = "loop" /\ Len(gstFrameBuffer) >= FRAME_HEADER_SIZE)
          => \/ decodePc' = "idle"
             \/ Len(gstFrameBuffer') < Len(gstFrameBuffer)]_vars
    /\ [][(/\ decodePc = "loop"
           /\ Len(gstFrameBuffer) >= FRAME_HEADER_SIZE
           /\ SubSeq(gstFrameBuffer, 1, 4) # magicBytes
           /\ decodePc' = "loop")
          => \E k \in 1..(Len(gstFrameBuffer) - 4) :
                /\ gstFrameBuffer' = SubSeq(gstFrameBuffer, k + 1, Len(gstFrameBuffer))
                /\ SubSeq(gstFrameBuffer, k + 1, k + 4) = magicBytes
                /\ \A j \in 1..(k - 1) :
                      SubSeq(gstFrameBuffer, j + 1, j + 4) # magicBytes]_vars
    /\ (decodePc = "loop") ~> (decodePc = "idle")
\* inside the loop, after stray bytes in front of a magic were cut off
C22_Witness ==
    /\ decodePc = "loop"
    /\ frameInput.prefix = <<1, 2, 3, 4, 5>>
    /\ Len(gstFrameBuffer) >= FRAME_HEADER_SIZE
    /\ SubSeq(gstFrameBuffer, 1, 4) = magicBytes
    /\ Len(gstFrameBuffer) < Len(StreamBytes(frameInput)) - Len(frameWire)

\* the complete packets of the stream that are RGBA, in stream order
Kept ==
    SelectSeq([i \in 1..Cardinality(Complete) |-> frameInput.packets[i]],
              LAMBDA p : p.format = FRAME_FORMAT_RGBA)
\* C23: a well-formed frame of another format than RGBA is consumed in full and
\* hands over nothing and sends no error; the frames after it are decoded as
\* they are on the wire and the buffer holds exactly the incomplete rest.
C23_SkipOtherFormat ==
    (frameConn /\ frameInput \in SkippedStreams)
    => /\ Len(framesParsed) = Len(Kept)
       /\ \A i \in 1..Len(Kept) : UpToPts(framesParsed[i], Kept[i])
       /\ gstFrameBuffer = SubSeq(StreamBytes(frameInput),
                                  EndOf(Cardinality(Complete)) + 1, Delivered)
       /\ \A i \in 1..Len(sent) : sent[i].channel \in {"player-video-info", "player-frame"}
\* the frame of the other format and the RGBA frame after it have both been
\* consumed, and the RGBA frame handed over
C23_Witness ==
    /\ frameConn
    /\ frameInput \in SkippedStreams
    /\ frameInput.packets[1].data # <<>>
    /\ frameWire = <<>>
    /\ gstFrameBuffer = <<>>
    /\ Len(framesParsed) = 1
    /\ framesParsed[1].data = frameInput.packets[2].data

\* ------------------------------------------------------- video-info
Geometry(f) == <<f.info.width, f.info.height, f.info.stride, f.info.format>>
VideoInfos(events) == SelectSeq(events, LAMBDA e : e.channel = "player-video-info")
\* of the decoded frames fs, those from index n + 1 on whose geometry differs
\* from that of the frame decoded before them
GeometryChanges(fs, n) ==
    SelectSeq([i \in 1..Len(fs) |-> [idx |-> i, frame |-> fs[i]]],
              LAMBDA r : /\ r.idx > n
                         /\ Geometry(r.frame) # (IF r.idx = 1 THEN <<>>
                                                 ELSE Geometry(fs[r.idx - 1])))
\* C24: the step that decodes frames sends one video-info per frame whose
\* geometry differs from that of the frame decoded before it, with that
\* frame's info, and none for the others; the key kept is the geometry of the
\* last frame decoded; a frame is sent in a later step and has the geometry of
\* the last video-info.
C24_VideoInfoFirst ==
    /\ [](gstLastVideoInfoKey = (IF framesParsed = <<>> THEN <<>>
                                 ELSE Geometry(framesParsed[Len(framesParsed)])))
    /\ [][LET changes == GeometryChanges(framesParsed', Len(framesParsed))
              infos == VideoInfos(sent')
          IN framesParsed' # framesParsed
             => /\ Len(infos) = Len(changes)
                /\ \A k \in 1..Len(changes) : infos[k].data = changes[k].frame.info
                /\ FrameEvents(sent') = {}]_vars
    /\ [][FrameEvents(sent') # {}
          => /\ framesParsed' = framesParsed
             /\ VideoInfos(sent') = <<>>
             /\ \A i \in FrameEvents(sent') :
                   Geometry(sent'[i].data) = gstLastVideoInfoKey]_vars
\* two frames of different geometry were decoded before the callback ran: two
\* notifications went out, and only the second frame was sent
C24_Witness ==
    /\ scenario = "frames"
    /\ Len(framesParsed) = 2
    /\ Geometry(framesParsed[1]) # Geometry(framesParsed[2])
    /\ Len(StreamBytes(frameInput)) <= FRAME_HEADER_SIZE + 64
    /\ frameWire = <<>>
    /\ frameImmediates = 0
    /\ FrameEvents(sent) # {}
    /\ Geometry(sent[1].data) = Geometry(framesParsed[2])

\* ------------------------------------------------------ property changes
\* C25: a property-change event named pause, volume, mute, time-pos or
\* duration with data v sets playing = ~v, volume = v, muted = v, position = v
\* or duration = v and leaves the other fields as they were; an event of any
\* other name changes nothing.
C25_PropertyMerge ==
    [][statusLog' # statusLog
       => LET msg == statusLog'[Len(statusLog')].msg
              v == msg.data
          IN mpvState' =
                IF msg.name = "pause" THEN [mpvState EXCEPT !.playing = ~v]
                ELSE IF msg.name = "volume" THEN [mpvState EXCEPT !.volume = v]
                ELSE IF msg.name = "mute" THEN [mpvState EXCEPT !.muted = v]
                ELSE IF msg.name = "time-pos" THEN [mpvState EXCEPT !.position = v]
                ELSE IF msg.name = "duration" THEN [mpvState EXCEPT !.duration = v]
                ELSE mpvState]_vars

\* ----------------------------------------------------- the playback state
\* C27: the playback state changes only when a status line or a property
\* change is merged; no handler of the player changes it, and a handler that
\* finds no backend changes nothing of it.
C27_OnlyIngestion ==
    /\ [][mpvState' # mpvState
          => /\ Len(statusLog') > Len(statusLog)
             /\ \A i \in (Len(statusLog) + 1)..Len(statusLog') :
                   statusLog'[i].kind \in {"gst", "mpv"}]_vars
    /\ [][ret' \in {"resolved: GStreamer helper not running",
                    "resolved: mpv not initialized"}
          => mpvState' = mpvState]_vars

\* C21: at the step that creates a backend process the playback state has its
\* default values.
C21_DefaultsAtSpawn ==
    [][(\/ gstProcess = "null" /\ gstProcess' # "null"
        \/ mpvProcess = "null" /\ mpvProcess' # "null")
       => mpvState' = InitialPlayback]_vars

\* C26: the volume of the playback state is an integer from 0 to 100.
C26_VolumeRange == mpvState.volume \in 0..100

\* ------------------------------------------------------- command order
\* C28: the lines on a backend's pipe or socket are in the order of the send
\* calls; a send writes its line in the same step whatever is pending; and a
\* timeout callback settles its own request and no other.
C28_WriteOrder ==
    /\ [](/\ \A i, j \in 1..Len(gstWritten) :
               i < j => ParseInt(gstWritten[i][2]) < ParseInt(gstWritten[j][2])
          /\ \A i, j \in 1..Len(mpvWritten) :
               i < j => mpvWritten[i].request_id < mpvWritten[j].request_id)
    /\ [][gstRequestId' # gstRequestId
          => LET id == gstRequestId + 1 IN
             /\ gstRequestId' = id
             /\ \/ /\ Len(gstWritten') = Len(gstWritten) + 1
                   /\ SubSeq(gstWritten', 1, Len(gstWritten)) = gstWritten
                   /\ ParseInt(gstWritten'[Len(gstWritten')][2]) = id
                   /\ id \in gstPendingRequests'
                \/ /\ gstWritten' = gstWritten
                   /\ gstOutcome'[id] = <<"writefail">>]_vars
    /\ [][requestId' # requestId
          => /\ requestId' > requestId
             /\ Len(mpvWritten') = Len(mpvWritten) + (requestId' - requestId)
             /\ SubSeq(mpvWritten', 1, Len(mpvWritten)) = mpvWritten
             /\ \A k \in 1..(requestId' - requestId) :
                   /\ mpvWritten'[Len(mpvWritten) + k].request_id = requestId + k
                   /\ requestId + k \in pendingRequests']_vars
    /\ [][(gstTimers # <<>> /\ gstTimers' = Tail(gstTimers) /\ gstRequestId' = gstRequestId)
          => /\ gstPendingRequests' = gstPendingRequests \ {Head(gstTimers)}
             /\ \A j \in GstIds \ {Head(gstTimers)} : gstOutcome'[j] = gstOutcome[j]]_vars
    /\ [][(mpvTimers # <<>> /\ mpvTimers' = Tail(mpvTimers) /\ requestId' = requestId)
          => /\ pendingRequests' = pendingRequests \ {Head(mpvTimers)}
             /\ \A j \in MpvIds \ {Head(mpvTimers)} : mpvOutcome'[j] = mpvOutcome[j]]_vars
\* a second command was written while the first had no reply yet, and the
\* timer of the first has expired since
C28_Witness ==
    /\ Len(gstWritten) = 2
    /\ gstRequestId = 2
    /\ gstOutcome[1] = <<"timeout">>
    /\ gstOutcome[2] = <<>>
    /\ gstPendingRequests = {2}
    /\ gstTimers = <<2>>

\* ------------------------------------------------------------- replies
\* C29: a reply with id i settles the pending request i and no other one, in
\* whatever order the replies come and whatever status lines or events come
\* with them or between them.
C29_ReplySettlesOwn ==
    /\ [][\A k \in GstIds :
            HelperAnswers(k)
            => LET id == ParseInt(gstWritten[k][2]) IN
               /\ gstPendingRequests' = gstPendingRequests \ {id}
               /\ gstOutcome' = [gstOutcome EXCEPT ![id] = Append(@, "ok")]]_vars
    /\ [][\A id \in MpvUserIds :
            MpvSocketData(FacadeReply(id))
            => /\ pendingRequests' = pendingRequests \ {id}
               /\ mpvOutcome' = IF id \in pendingRequests
                                 THEN [mpvOutcome EXCEPT ![id] = Append(@, "resolved")]
                                 ELSE mpvOutcome]_vars
    /\ [][(/\ Len(statusLog') > Len(statusLog)
           /\ statusLog'[Len(statusLog')].kind = "mpv"
           /\ "request_id" \notin DOMAIN statusLog'[Len(statusLog')].msg)
          => UNCHANGED <<pendingRequests, mpvOutcome>>]_vars
\* two requests were written; the reply to the second came first, with a
\* status line, and the first is still pending
C29_Witness ==
    /\ Len(gstWritten) = 2
    /\ gstWritten[2][1] = "volume"
    /\ gstOutcome[2] = <<"ok">>
    /\ gstOutcome[1] = <<>>
    /\ gstPendingRequests = {1}
    /\ statusLog # <<>>
    /\ statusLog[Len(statusLog)].kind = "gst"

\* the ids of the well-formed result lines among lines
ResultIds(lines) ==
    {ParseInt(lines[i][2]) :
        i \in {j \in 1..Len(lines) : /\ Len(lines[j]) >= 3
                                     /\ lines[j][1] = "result"
                                     /\ IsDigits(lines[j][2])
                                     /\ lines[j][3] \in {"ok", "error"}}}
\* the ids of the replies among the lines of an mpv chunk
ReplyIds(lines) ==
    {lines[i][1].msg.request_id :
        i \in {j \in 1..Len(lines) : /\ Len(lines[j]) = 1
                                     /\ lines[j][1].json
                                     /\ "request_id" \in DOMAIN lines[j][1].msg}}
\* C30: the lines of a chunk that are no well-formed reply to a pending
\* request (status, ready, error, warning, debug, malformed result lines,
\* lines that are no JSON, replies to ids not pending) take nothing from the
\* pending map and settle nothing, and the replies to pending requests
\* among them are still handled.
C30_OtherLines ==
    /\ [][\A chunk \in LineChunks :
            GstStdoutData(chunk)
            => LET pieces == [chunk EXCEPT ![1] = gstBuffer \o chunk[1]]
                   settled == ResultIds(SubSeq(pieces, 1, Len(pieces) - 1))
                                \cap gstPendingRequests
               IN /\ gstPendingRequests' = gstPendingRequests \ settled
                  /\ \A id \in GstIds :
                        IF id \in settled
                        THEN Len(gstOutcome'[id]) = Len(gstOutcome[id]) + 1
                        ELSE gstOutcome'[id] = gstOutcome[id]]_vars
    /\ [][\A chunk \in MpvChunks :
            MpvSocketData(chunk)
            => LET pieces == [chunk EXCEPT ![1] = mpvLineBuffer \o chunk[1]]
                   settled == ReplyIds(SubSeq(pieces, 1, Len(pieces) - 1))
                                \cap pendingRequests
               IN /\ pendingRequests' = pendingRequests \ settled
                  /\ \A id \in MpvIds :
                        IF id \in settled
                        THEN Len(mpvOutcome'[id]) = Len(mpvOutcome[id]) + 1
                        ELSE mpvOutcome'[id] = mpvOutcome[id]]_vars
\* an error line, a malformed result line and a status line were handled,
\* then the reply behind them in the same chunk, while request 2 stays pending
C30_Witness ==
    /\ gstPendingRequests = {2}
    /\ gstOutcome[1] = <<"ok">>
    /\ gstOutcome[2] = <<>>
    /\ \E i \in 1..Len(sent) : sent[i].channel = "mpv-error"
    /\ statusLog # <<>>
    /\ statusLog[Len(statusLog)].kind = "gst"

\* ------------------------------------------------------ the text protocol
ResultLines(out) == SelectSeq(out, LAMBDA l : l[1] = "result")
C32_IdOptional ==
    (cmdOut # <<>> /\ cmdOut.id = <<>>)
    => \A id \in RequestIds :
         LET with == handle_command_line(WithId(cmdOut.command, id), cmdOut.before,
                                         cmdOut.seekOk)
         IN /\ [cmdOut.after EXCEPT !.out = <<>>] = [with EXCEPT !.out = <<>>]
            /\ cmdOut.after.out = SelectSeq(with.out, LAMBDA l : l[1] # "result")

\* ---- the last update
\* the backend has sent its last update, and the throttle interval has passed
\* since the last push
UpdatesStopped ==
    /\ Len(statusLog) = MaxStatus
    /\ \A i \in 1..Len(statusLog) : statusLog[i].kind \in {"gst", "mpv"}
    /\ now - (IF platform = "linux" THEN lastGstStatusUpdate ELSE lastStatusUpdate)
           > STATUS_THROTTLE_MS
\* C33: once the backend has stopped sending updates, the renderer has been
\* pushed the playback state merged through the last update: no final update
\* is lost to the throttle.
C33_FinalUpdatePushed ==
    UpdatesStopped
    => /\ pushLog # <<>>
       /\ pushLog[Len(pushLog)].seen = Len(statusLog)
       /\ pushLog[Len(pushLog)].data = mpvState

\* ---- commands after the backend's exit
\* a command was issued and its promise left pending on the helper channel,
\* on the mpv channel
GstCommandLeftPending ==
    gstRequestId' # gstRequestId \/ gstWritten' # gstWritten
    \/ ~(gstPendingRequests' \subseteq gstPendingRequests)
MpvCommandLeftPending ==
    requestId' # requestId \/ mpvWritten' # mpvWritten
    \/ ~(pendingRequests' \subseteq pendingRequests)
\* C34: once the backend process has exited (and none has been started
\* since), no command is written to it or added to the pending map: a command
\* issued then completes at once with an error.
C34_NoCommandToDeadBackend ==
    [][/\ (~gstAlive /\ ~gstAlive') => ~GstCommandLeftPending
       /\ (~mpvAlive /\ ~mpvAlive') => ~MpvCommandLeftPending]_vars

\* ---- getStatus on the helper backend
RECURSIVE MergedLog(_)
MergedLog(log) ==
    IF log = <<>> THEN InitialPlayback
    ELSE ApplyUpdate(log[Len(log)], MergedLog(SubSeq(log, 1, Len(log) - 1)))
\* the request id is settled with the helper's ok in this step
AnsweredOk(id) ==
    /\ id \in gstPendingRequests
    /\ id \notin gstPendingRequests'
    /\ gstOutcome'[id] = <<"ok">>
\* C35: when the status command of a getStatus call is answered, the state
\* the call returns has merged the status line the helper wrote for that
\* command, and every line that arrived up to the result, in arrival order.
C35_StatusBeforeResult ==
    [][\A id \in GstIds :
         (AnsweredOk(id) /\ gstWritten[id][1] = "status")
         => /\ Len(cmdOut.emitted[id]) = 1
            /\ \E j \in 1..Len(statusLog') :
                 /\ statusLog'[j].kind = "gst"
                 /\ statusLog'[j].line = cmdOut.emitted[id][1]
            /\ mpvState' = MergedLog(statusLog')]_vars
\* the second command was a status command; its status line came in one chunk
\* and its result in the next, after a line of the status timer
C35_Witness ==
    /\ Len(gstWritten) = 2
    /\ gstWritten[2][1] = "status"
    /\ gstOutcome[2] = <<"ok">>
    /\ cmdOut.timer = 1
    /\ Len(statusLog) = 3
    /\ statusLog[3].line = cmdOut.emitted[2][1]
    /\ mpvState.position = 2000
    /\ mpvState.duration = 600000

\* ---- the end of the helper
\* C36: after the main loop has quit, the writer thread ends, is joined, and
\* main returns.
C36_MainReturns ==
    (helperProc.mainPc = "quit") ~> (helperProc.mainPc = "returned")

\* ---- the frame socket's byte stream
wire == helperProc.wire
RECURSIVE BytesOf(_, _, _)
\* the bytes of a frame's header, of its payload, among the first k runs
BytesOf(id, part, k) ==
    IF k = 0 THEN 0
    ELSE BytesOf(id, part, k - 1)
         + (IF wire[k].frame_id = id /\ wire[k].part = part THEN wire[k].n ELSE 0)
WireFrames == {wire[k].frame_id : k \in 1..Len(wire)}
\* the runs are in the order of the records: frame ids never decrease, and
\* within a frame the header comes before the payload
InRecordOrder ==
    \A k \in 1..(Len(wire) - 1) :
        \/ wire[k].frame_id < wire[k + 1].frame_id /\ wire[k + 1].part = "header"
        \/ /\ wire[k].frame_id = wire[k + 1].frame_id
           /\ wire[k].part = "header" \/ wire[k + 1].part = "payload"
\* a complete record: a 40-byte header and exactly payload_size bytes
CompleteRecord(id) ==
    /\ BytesOf(id, "header", Len(wire)) = FRAME_HEADER_SIZE
    /\ \A k \in 1..Len(wire) :
         wire[k].frame_id = id => BytesOf(id, "payload", Len(wire)) = wire[k].payload_size
\* the writer is inside send_frame_packet
Sending == writerPc = "send"
\* C37 as stated: whenever the writer is not in the middle of a packet, the
\* bytes on the frame socket are a concatenation of complete records.
C37_Original ==
    ~Sending => \A id \in WireFrames : CompleteRecord(id)
\* C37: the bytes on the frame socket are complete records in strictly
\* increasing frame_id order, but for the last record, which is incomplete
\* while it is being sent and stays so when its write fails; frames are
\* dropped from the queue only, whole; after a failed write nothing more is
\* written.
C37_WholeRecords ==
    /\ [](/\ InRecordOrder
          /\ wire # <<>> => wire[1].part = "header"
          /\ \A id \in WireFrames :
               \/ CompleteRecord(id)
               \/ /\ id = wire[Len(wire)].frame_id
                  /\ (Sending /\ writerPacket = id) \/ ~helperProc.frame_socket_fd
          /\ Sending => writerPacket \notin Range(frame_queue))
    /\ [][/\ ~helperProc.frame_socket_fd => wire' = wire
          /\ wire' # wire => /\ WriterSends(wire'[Len(wire')].n)
                             /\ wire'[Len(wire')].frame_id = writerPacket
          /\ (\E n \in {0, -1} : WriterSends(n)) => ~helperProc'.frame_socket_fd]_vars
\* a frame was dropped under backpressure, a later one was sent whole, and
\* the write of the next failed after its header
C37_Witness ==
    /\ Len(wire) >= 3
    /\ \E id \in WireFrames : id > 1 /\ id - 1 \notin WireFrames /\ CompleteRecord(id)
    /\ ~CompleteRecord(wire[Len(wire)].frame_id)
    /\ BytesOf(wire[Len(wire)].frame_id, "header", Len(wire)) = FRAME_HEADER_SIZE
    /\ ~helperProc.frame_socket_fd
    /\ writerPc = "ended"

\* ---- frames after a stop
VideoEvents(events) ==
    SelectSeq(events, LAMBDA e : e.channel \in {"player-frame", "player-video-info"})
\* C38: once killGst has stopped the frame server, no frame and no video-info
\* notification is sent to the renderer, whatever arrives on the old frame
\* connection and whichever scheduled callback runs.
C38_NoFrameAfterStop ==
    [][(gstFrameServer = "null" /\ gstFrameServer' = "null") => VideoEvents(sent') = <<>>]_vars

\* ---- the ready listeners of the preload script
\* C39: every registered ready listener, whether it was registered before or
\* after the last ready event, has been called with the most recent ready
\* value, and a listener registered after an event is called at once;
\* removeAllListeners leaves all six listener sets empty.
C39_ReadyReplayed ==
    /\ [](preload.lastReady # <<>>
          => \A cb \in preload.listeners["ready"] : preload.flag[cb] = preload.lastReady)
    /\ [][/\ \A cb \in Callbacks :
               (RegisterReady(cb) /\ preload.lastReady # <<>>)
               => /\ <<"ready", cb>> \in preload'.called
                  /\ preload'.flag[cb] = preload.lastReady
          /\ RemoveAllListeners => \A k \in ListenerKinds : preload'.listeners[k] = {}]_vars
\* one listener was registered before the ready events and one after the
\* last; both hold the value false that the backend reported last
C39_Witness ==
    /\ preload.lastReady = <<FALSE>>
    /\ preload.listeners["ready"] = {"a", "b"}
    /\ preload.called = {<<"ready", "b">>}
    /\ preload.flag["a"] = <<FALSE>>
    /\ preload.flag["b"] = <<FALSE>>

====
